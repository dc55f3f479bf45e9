-------------------------------- MODULE Stdio --------------------------------
(***************************************************************************)
(* A C stream (relibc header/stdio/mod.rs) over its buffered writer        *)
(* (io/buffered.rs): a BufWriter for files, a LineWriter for the standard  *)
(* streams.  Each call has the lock of the stream, so it is one step; what *)
(* the kernel may do to one call (short reads and writes, errors) makes    *)
(* the set of its outcomes.                                                *)
(*                                                                         *)
(* The program keeps the rule of C: between writing and reading it flushes *)
(* or seeks, between reading and writing it seeks.  A byte is a number,    *)
(* the newline is 0.                                                       *)
(***************************************************************************)
EXTENDS Integers, Sequences, SequencesExt

CONSTANTS
  Content,      \* the bytes of the file at first
  Data,         \* what the program writes at a time
  ReadCap,      \* BUFSIZ
  WriteCap,     \* the capacity of the BufWriter
  MaxSize,      \* bound on the size of the file
  MaxUnget      \* bound on the bytes pushed back

VARIABLES
  line,         \* the writer is a LineWriter
  stream,       \* the FILE, and the kernel's file with its position
  last,         \* what the program did last: read, write, neither
  want, at,     \* history: the file and the position the program has seen
  got, due,     \* history: bytes of the last read, and those that were ahead
  closed        \* open, or the result of fclose

vars == <<line, stream, last, want, at, got, due, closed>>

Newline == 0
Byte == 0..2
Take(s, n) == SubSeq(s, 1, n)
Drop(s, n) == SubSeq(s, n + 1, Len(s))
Least(a, b) == IF a < b THEN a ELSE b

(* A file after bytes are written to it at a position.                      *)
Overlay(file, pos, bytes) == Take(file, pos) \o bytes \o Drop(file, pos + Len(bytes))

TypeOK ==
  /\ line \in BOOLEAN /\ stream.need_flush \in BOOLEAN /\ stream.eof \in BOOLEAN /\ stream.err \in BOOLEAN
  /\ stream.file \in Seq(Byte) /\ stream.pos \in 0..Len(stream.file)
  /\ stream.rbuf \in Seq(Byte) /\ Len(stream.rbuf) <= ReadCap
  /\ stream.wbuf \in Seq(Byte) /\ Len(stream.wbuf) <= WriteCap
  /\ stream.unget \in Seq(Byte) /\ Len(stream.unget) <= MaxUnget
  /\ last \in {"none", "read", "write"} /\ closed \in {"open", "ok", "failed"}

-----------------------------------------------------------------------------
(* Writing.  An outcome is the stream after the call, the bytes it took and *)
(* whether it succeeded.                                                    *)
Outcome(s, n, ok) == [s |-> s, n |-> n, ok |-> ok]

(* Sys::write: some of the bytes, or an error.                              *)
sys_write(s, bytes) ==
  {Outcome([s EXCEPT !.file = Overlay(@, s.pos, Take(bytes, n)), !.pos = @ + n], n, TRUE) : n \in 0..Len(bytes)}
  \cup {Outcome(s, 0, FALSE)}

(* Mutant: an error forgets the whole buffer.                               *)
flush_buf_clears(s) ==
  {Outcome([s EXCEPT !.file = Overlay(@, s.pos, Take(s.wbuf, n)), !.pos = @ + n, !.wbuf = <<>>],
           0, n = Len(s.wbuf)) : n \in 0..Len(s.wbuf)}

(* flush_buf goes on until the buffer is empty or a write fails: what was   *)
(* written is drained.                                                      *)
flush_buf(s) ==
  {Outcome([s EXCEPT !.file = Overlay(@, s.pos, Take(s.wbuf, n)), !.pos = @ + n, !.wbuf = Drop(@, n)],
           0, n = Len(s.wbuf)) : n \in 0..Len(s.wbuf)}

(* Mutant: large writes pass the bytes that wait.                           *)
buf_write_passing(s, bytes) ==
  IF Len(bytes) >= WriteCap THEN sys_write(s, bytes)
  ELSE UNION {IF ~o.ok THEN {o} ELSE {Outcome([o.s EXCEPT !.wbuf = @ \o bytes], Len(bytes), TRUE)} :
                o \in IF Len(s.wbuf) + Len(bytes) > WriteCap THEN flush_buf(s) ELSE {Outcome(s, 0, TRUE)}}

(* BufWriter::write.                                                        *)
buf_write(s, bytes) ==
  UNION {IF ~o.ok THEN {o}
         ELSE IF Len(bytes) >= WriteCap THEN sys_write(o.s, bytes)
         ELSE {Outcome([o.s EXCEPT !.wbuf = @ \o bytes], Len(bytes), TRUE)} :
           o \in IF Len(s.wbuf) + Len(bytes) > WriteCap THEN flush_buf(s) ELSE {Outcome(s, 0, TRUE)}}

line_flush(s) == {[o EXCEPT !.s.need_flush = ~o.ok /\ @] : o \in flush_buf(s)}

(* The end of the last line in bytes.                                       *)
LastLine(bytes) == SelectLastInSeq(bytes, LAMBDA b : b = Newline)

(* After the lines are written: flush, then the rest.                       *)
WriteRest(o, bytes, i) ==
  UNION {IF ~f.ok \/ o.n # i THEN {Outcome(f.s, o.n, TRUE)}
         ELSE {Outcome(r.s, o.n + (IF r.ok THEN r.n ELSE 0), TRUE) : r \in buf_write(f.s, Drop(bytes, i))} :
           f \in line_flush([o.s EXCEPT !.need_flush = TRUE])}

(* Mutant: a flush that failed is not tried again.                          *)
line_write_once(s, bytes) ==
  LET i == LastLine(bytes)
  IN  IF i = 0 THEN buf_write(s, bytes)
      ELSE UNION {IF ~o.ok THEN {o} ELSE {[w EXCEPT !.s.need_flush = FALSE] : w \in WriteRest(o, bytes, i)} :
                    o \in buf_write(s, Take(bytes, i))}

(* LineWriter::write.                                                       *)
line_write(s, bytes) ==
  LET i == LastLine(bytes)
  IN  UNION {IF ~f.ok THEN {f}
             ELSE IF i = 0 THEN buf_write(f.s, bytes)
             ELSE UNION {IF o.ok THEN WriteRest(o, bytes, i) ELSE {o} : o \in buf_write(f.s, Take(bytes, i))} :
               f \in IF s.need_flush THEN line_flush(s) ELSE {Outcome(s, 0, TRUE)}}

Failing(o) == IF o.ok THEN o ELSE [o EXCEPT !.s.err = TRUE]

write(s, bytes) == {Failing(o) : o \in IF line THEN line_write(s, bytes) ELSE buf_write(s, bytes)}
flush(s) == {Failing(o) : o \in IF line THEN line_flush(s) ELSE flush_buf(s)}

(* The loop of fwrite.                                                      *)
RECURSIVE WriteAll(_, _, _)
WriteAll(s, bytes, written) ==
  UNION {IF ~o.ok \/ o.n = 0 THEN {Outcome(o.s, written, FALSE)}
         ELSE IF o.n = Len(bytes) THEN {Outcome(o.s, written + o.n, TRUE)}
         ELSE WriteAll(o.s, Drop(bytes, o.n), written + o.n) : o \in write(s, bytes)}

-----------------------------------------------------------------------------
(* Reading.  An outcome is the stream, the bytes and whether all went well. *)
Result(s, out, ok) == [s |-> s, out |-> out, ok |-> ok]

(* fill_buf.  The kernel gives some of what is there, or an error.          *)
fill_buf(s) ==
  IF s.rbuf # <<>> THEN {Result(s, <<>>, TRUE)}
  ELSE {Result([s EXCEPT !.err = TRUE], <<>>, FALSE)}
       \cup IF s.pos = Len(s.file) THEN {Result([s EXCEPT !.eof = TRUE], <<>>, TRUE)}
            ELSE {Result([s EXCEPT !.rbuf = SubSeq(s.file, s.pos + 1, s.pos + n), !.pos = @ + n], <<>>, TRUE) :
                    n \in 1..Least(ReadCap, Len(s.file) - s.pos)}

consume(s, n) == [s EXCEPT !.rbuf = Drop(@, Least(n, Len(@)))]

(* Mutant: pushed back bytes come out in the order they went in.            *)
Popped_queue(s, n) == Result([s EXCEPT !.unget = Drop(@, n)], Take(s.unget, n), TRUE)

(* The last n bytes pushed back, last first.                                *)
Popped(s, n) ==
  Result([s EXCEPT !.unget = Take(@, Len(@) - n)], Reverse(Drop(s.unget, Len(s.unget) - n)), TRUE)

(* FILE::read: what is pushed back first, and alone.                        *)
read(s, n) ==
  IF s.unget # <<>> THEN {Popped(s, Least(n, Len(s.unget)))}
  ELSE {IF r.ok THEN Result(consume(r.s, n), Take(r.s.rbuf, Least(n, Len(r.s.rbuf))), TRUE) ELSE r :
          r \in fill_buf(s)}

RECURSIVE ReadAll(_, _, _)
ReadAll(s, n, out) ==
  IF Len(out) = n THEN {Result(s, out, TRUE)}
  ELSE UNION {IF ~r.ok \/ r.out = <<>> THEN {Result(r.s, out, r.ok)} ELSE ReadAll(r.s, n, out \o r.out) :
                r \in read(s, n - Len(out))}

(* The bytes up to the first newline, that included, if there is one.       *)
Upto(bytes) == LET i == SelectInSeq(bytes, LAMBDA b : b = Newline) IN IF i = 0 THEN bytes ELSE Take(bytes, i)

(* The loop of fgets and of read_until: to the newline, to n bytes, to the  *)
(* end.  The second goes on when the read was interrupted.                  *)
RECURSIVE Lines(_, _, _, _)
Lines(s, n, out, goes_on) ==
  IF Len(out) = n THEN {Result(s, out, TRUE)}
  ELSE UNION {LET part == Upto(Take(r.s.rbuf, Least(n - Len(out), Len(r.s.rbuf))))
                  s1 == consume(r.s, Len(part))
              IN  IF ~r.ok
                  THEN {Result(r.s, out, FALSE)} \cup (IF goes_on /\ ~s.err THEN Lines(r.s, n, out, TRUE) ELSE {})
                  ELSE IF part = <<>> THEN {Result(r.s, out, TRUE)}
                  ELSE IF Last(part) = Newline THEN {Result(s1, out \o part, TRUE)}
                  ELSE Lines(s1, n, out \o part, goes_on) : r \in fill_buf(s)}

-----------------------------------------------------------------------------
(* The calls of the program.                                                *)
MayWrite == closed = "open" /\ (last # "read" \/ (stream.rbuf = <<>> /\ stream.unget = <<>> /\ stream.eof))
MayRead == closed = "open" /\ last # "write"
NoRead == got' = <<>> /\ due' = <<>>

fwrite ==
  /\ MayWrite
  /\ \E bytes \in Data :
       /\ at + Len(bytes) <= MaxSize
       /\ \E o \in WriteAll(stream, bytes, 0) :
            /\ stream' = o.s /\ want' = Overlay(want, at, Take(bytes, o.n)) /\ at' = at + o.n
  /\ last' = "write" /\ UNCHANGED <<line, closed>> /\ NoRead

fflush ==
  /\ closed = "open"
  /\ \E o \in flush(stream) : stream' = o.s /\ last' = IF o.ok /\ last = "write" THEN "none" ELSE last
  /\ UNCHANGED <<line, want, at, closed>> /\ NoRead

(* What lies ahead, without and with the bytes pushed back.                 *)
Ahead == Drop(want, at + Len(stream.unget))
AheadAll == Reverse(stream.unget) \o Ahead

Took(r) ==
  /\ stream' = r.s /\ got' = r.out /\ at' = at + Len(r.out) /\ last' = "read"
  /\ UNCHANGED <<line, want, closed>>

fread ==
  /\ MayRead /\ due' = AheadAll
  /\ \E n \in 1..(ReadCap + 1) : \E r \in ReadAll(stream, n, <<>>) : Took(r)

(* fgets takes what is pushed back, newlines or not, and then a line.       *)
fgets ==
  /\ MayRead /\ due' = AheadAll
  /\ \E n \in 1..(ReadCap + 1) :
       LET p == Popped(stream, Least(n, Len(stream.unget)))
       IN  \E r \in Lines(p.s, n, p.out, FALSE) : Took(r)

(* getdelim does not see what is pushed back.  After a whole line, and at   *)
(* the end, it clears the error flag and leaves the other.                  *)
getdelim ==
  /\ MayRead /\ ~stream.eof /\ ~stream.err
  /\ due' = Ahead
  /\ \E r \in Lines(stream, Len(Content) + MaxSize, <<>>, TRUE) :
       Took(IF r.ok /\ (r.out = <<>> \/ Last(r.out) = Newline) THEN [r EXCEPT !.s.err = FALSE]
            ELSE IF ~r.ok THEN [r EXCEPT !.s.eof = FALSE]
            ELSE r)

ungetc ==
  /\ MayRead /\ Len(stream.unget) < MaxUnget /\ at > 0
  /\ \E b \in Byte : stream' = [stream EXCEPT !.unget = Append(@, b)]
  /\ at' = at - 1 /\ last' = "read" /\ UNCHANGED <<line, want, closed>> /\ NoRead

(* Mutant: the bytes read ahead are not taken off.                          *)
Target_kernel(s, whence, off) == CASE whence = "set" -> off [] whence = "cur" -> s.pos + off [] OTHER -> Len(s.file) + off

(* Where fseek goes once the writer is flushed.                             *)
Target(s, whence, off) ==
  CASE whence = "set" -> off
    [] whence = "cur" -> s.pos + (off - Len(s.rbuf))
    [] OTHER -> Len(s.file) + off

(* fseek_locked.  Offsets beyond the file are left out.                     *)
fseek ==
  /\ closed = "open"
  /\ \E whence \in {"set", "cur", "end"}, off \in -1..1, o \in flush(stream) :
       LET to == Target(o.s, whence, off)
           goal == CASE whence = "set" -> off [] whence = "cur" -> at + Len(stream.unget) + off [] OTHER -> Len(want) + off
       IN  /\ to <= Len(o.s.file)
           /\ IF o.ok /\ to >= 0
              THEN /\ stream' = [o.s EXCEPT !.pos = to, !.eof = FALSE, !.err = FALSE, !.rbuf = <<>>, !.unget = <<>>]
                   /\ at' = goal /\ last' = "none"
              ELSE stream' = o.s /\ UNCHANGED <<at, last>>
  /\ UNCHANGED <<line, want, closed>> /\ NoRead

(* __fpurge drops what is buffered either way.                              *)
fpurge ==
  /\ closed = "open"
  /\ stream' = [stream EXCEPT !.rbuf = <<>>, !.unget = <<>>, !.wbuf = <<>>]
  /\ want' = stream.file /\ at' = stream.pos
  /\ UNCHANGED <<line, last, closed>> /\ NoRead

clearerr ==
  /\ closed = "open"
  /\ stream' = [stream EXCEPT !.eof = FALSE, !.err = FALSE]
  /\ UNCHANGED <<line, last, want, at, closed>> /\ NoRead

(* Mutant: the result of the flush is dropped.                              *)
fclose_deaf ==
  /\ closed = "open"
  /\ \E o \in flush(stream), close \in BOOLEAN : stream' = o.s /\ closed' = IF close THEN "ok" ELSE "failed"
  /\ UNCHANGED <<line, last, want, at>> /\ NoRead

(* fclose, of which the close may fail as well.                             *)
fclose ==
  /\ closed = "open"
  /\ \E o \in flush(stream), close \in BOOLEAN : stream' = o.s /\ closed' = IF o.ok /\ close THEN "ok" ELSE "failed"
  /\ UNCHANGED <<line, last, want, at>> /\ NoRead

Init ==
  /\ line \in BOOLEAN
  /\ stream = [file |-> Content, pos |-> 0, rbuf |-> <<>>, wbuf |-> <<>>, unget |-> <<>>,
               need_flush |-> FALSE, eof |-> FALSE, err |-> FALSE]
  /\ last = "none" /\ want = Content /\ at = 0 /\ got = <<>> /\ due = <<>> /\ closed = "open"

Next == fwrite \/ fflush \/ fread \/ fgets \/ getdelim \/ ungetc \/ fseek \/ fpurge \/ clearerr \/ fclose

Spec == Init /\ [][Next]_vars

-----------------------------------------------------------------------------
(* Every byte that a write call counted as taken is in the file or waits in *)
(* its place, after whatever short writes, failed flushes and retries; and  *)
(* an fclose that succeeds has written them all.                            *)
TakenIsKept ==
  /\ Overlay(stream.file, stream.pos, stream.wbuf) = want
  /\ closed = "ok" => stream.file = want

(* The kernel's position and the buffers give the position of the program,  *)
(* which fseek is relative to and which ftell returns when no byte waits.   *)
PositionExact == stream.pos + Len(stream.wbuf) = at + Len(stream.unget) + Len(stream.rbuf)

(* A read gets the bytes ahead in order, each once: those pushed back, last *)
(* first, then those of the file, across refills and errors.                *)
ReadsInOrder == IsPrefix(got, due)

(* A LineWriter keeps no whole line back, but for a flush that failed and   *)
(* that the next write tries again.                                         *)
LinesOut == line /\ ~stream.need_flush => ~Contains(stream.wbuf, Newline)
=============================================================================
