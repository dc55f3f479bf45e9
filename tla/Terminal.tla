------------------------------ MODULE Terminal ------------------------------
(***************************************************************************)
(* What is typed, on its way to the processes that read it: the keyboard   *)
(* interrupt and its queue (device/keyboard.rs), the kernel thread that    *)
(* turns scancodes into characters, the queue of characters, and the reads *)
(* of the terminal (fs/vfs/dev/terminal.rs).  Every process has a terminal *)
(* of its own, but all of them read the one queue.                         *)
(***************************************************************************)
EXTENDS Naturals, Sequences

CONSTANTS
  Reader,      \* threads that read the terminal
  Decode,      \* external: pc_keyboard, a character or NoChar for a scancode
  NoChar,
  Newline,
  ScanSize,    \* SCANCODE_QUEUE_SIZE
  ByteSize,    \* the size of BYTES
  BufLen,      \* the length of a reader's buffer
  MaxKeys      \* bound: keys typed

VARIABLES
  scancodes,   \* SCANCODE_QUEUE
  bytes,       \* BYTES
  parser,      \* keyboard_parse_thread: the character it is about to push,
               \* NoChar while it looks for a scancode, or Dead
  pc,          \* per reader: idle, pop, check or hlt
  write,       \* per reader: the number of characters in its buffer
  typed,       \* history: the characters of the scancodes that found room
  popped,      \* history: the characters readers took
  keys         \* history: scancodes so far

vars == <<scancodes, bytes, parser, pc, write, typed, popped, keys>>

Code == DOMAIN Decode
Char == {Decode[c] : c \in Code} \ {NoChar}
Dead == "dead"

TypeOK ==
  /\ scancodes \in Seq(Code) /\ Len(scancodes) <= ScanSize
  /\ bytes \in Seq(Char) /\ Len(bytes) <= ByteSize
  /\ parser \in Char \cup {NoChar, Dead}
  /\ pc \in [Reader -> {"idle", "pop", "check", "hlt"}]
  /\ write \in [Reader -> 0 .. BufLen]

Chars(codes) ==
  SelectSeq([i \in DOMAIN codes |-> Decode[codes[i]]], LAMBDA c : c # NoChar)

Init ==
  /\ scancodes = <<>> /\ bytes = <<>> /\ parser = NoChar
  /\ pc = [r \in Reader |-> "idle"] /\ write = [r \in Reader |-> 0]
  /\ typed = <<>> /\ popped = <<>> /\ keys = 0

-----------------------------------------------------------------------------
(* Mutant: a full queue makes room by giving up its oldest scancode.        *)
keyboard_interrupt_overwrite(code) ==
  /\ keys < MaxKeys /\ keys' = keys + 1
  /\ scancodes' = Append(IF Len(scancodes) < ScanSize THEN scancodes ELSE Tail(scancodes), code)
  /\ typed' = typed \o Chars(<<code>>)
  /\ UNCHANGED <<bytes, parser, pc, write, popped>>

(* keyboard_interrupt and add_scancode: a full queue drops the new code.    *)
keyboard_interrupt(code) ==
  /\ keys < MaxKeys /\ keys' = keys + 1
  /\ IF Len(scancodes) < ScanSize
     THEN scancodes' = Append(scancodes, code) /\ typed' = typed \o Chars(<<code>>)
     ELSE UNCHANGED <<scancodes, typed>>
  /\ UNCHANGED <<bytes, parser, pc, write, popped>>

(* keyboard_parse_thread: get_scancode and the decoder.                     *)
parse ==
  /\ parser = NoChar /\ scancodes # <<>>
  /\ parser' = Decode[Head(scancodes)] /\ scancodes' = Tail(scancodes)
  /\ UNCHANGED <<bytes, pc, write, typed, popped, keys>>

(* push_char: with BYTES full the thread panics, which ends it.             *)
push_char ==
  /\ parser \in Char
  /\ IF Len(bytes) < ByteSize
     THEN bytes' = Append(bytes, parser) /\ parser' = NoChar
     ELSE parser' = Dead /\ UNCHANGED bytes
  /\ UNCHANGED <<scancodes, pc, write, typed, popped, keys>>

-----------------------------------------------------------------------------
(* read_at.  A line ends the call, and so does a full buffer.               *)
read(r) ==
  /\ pc[r] = "idle" /\ pc' = [pc EXCEPT ![r] = "pop"]
  /\ write' = [write EXCEPT ![r] = 0]
  /\ UNCHANGED <<scancodes, bytes, parser, typed, popped, keys>>

pop(r) ==
  /\ pc[r] = "pop"
  /\ IF bytes = <<>>
     THEN pc' = [pc EXCEPT ![r] = "check"] /\ UNCHANGED <<bytes, write, popped>>
     ELSE /\ bytes' = Tail(bytes) /\ popped' = Append(popped, Head(bytes))
          /\ write' = [write EXCEPT ![r] = @ + 1]
          /\ pc' = [pc EXCEPT ![r] = IF Head(bytes) = Newline \/ write'[r] = BufLen THEN "idle" ELSE "pop"]
  /\ UNCHANGED <<scancodes, parser, typed, keys>>

(* while BYTES.is_empty()                                                   *)
check(r) ==
  /\ pc[r] = "check"
  /\ pc' = [pc EXCEPT ![r] = IF bytes = <<>> THEN "hlt" ELSE "pop"]
  /\ UNCHANGED <<scancodes, bytes, parser, write, typed, popped, keys>>

(* Mutant: only what arrives after the processor halted wakes it.           *)
hlt_deaf(r) ==
  /\ pc[r] = "hlt" /\ scancodes # <<>>
  /\ pc' = [pc EXCEPT ![r] = "check"]
  /\ UNCHANGED <<scancodes, bytes, parser, write, typed, popped, keys>>

(* enable_and_hlt returns with the next interrupt of this processor, which  *)
(* is its timer's at the latest.                                            *)
hlt(r) ==
  /\ pc[r] = "hlt"
  /\ pc' = [pc EXCEPT ![r] = "check"]
  /\ UNCHANGED <<scancodes, bytes, parser, write, typed, popped, keys>>

Reads(r) == pop(r) \/ check(r) \/ hlt(r)

Next ==
  \/ \E code \in Code : keyboard_interrupt(code)
  \/ parse \/ push_char
  \/ \E r \in Reader : read(r) \/ Reads(r)

Fairness ==
  /\ WF_vars(parse \/ push_char)
  /\ \A r \in Reader : WF_vars(Reads(r))

Spec == Init /\ [][Next]_vars /\ Fairness

-----------------------------------------------------------------------------
(* What was typed, and found room in the first queue, reaches the readers   *)
(* once and in order, across two queues and a thread in between, for as     *)
(* long as the second queue has room when that thread needs it.             *)
NothingLost ==
  IF parser = Dead
  THEN \E n \in 0 .. Len(typed) : popped \o bytes = SubSeq(typed, 1, n)
  ELSE typed = popped \o bytes \o (IF parser = NoChar THEN <<>> ELSE <<parser>>) \o Chars(scancodes)

(* Characters do not stay in the queue while a reader waits for them, even  *)
(* one that found the queue empty just before they came and then halted.    *)
ReadersServed ==
  \A r \in Reader : pc[r] # "idle" /\ bytes # <<>> ~> pc[r] = "idle" \/ bytes = <<>>
=============================================================================
