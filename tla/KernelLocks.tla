----------------------------- MODULE KernelLocks -----------------------------
(***************************************************************************)
(* The order in which the system calls and the timer interrupt take the    *)
(* locks of the task subsystem (kernel/src/syscall/operations.rs,          *)
(* task/process.rs, task/thread.rs, task/scheduler.rs), one step for each  *)
(* lock taken or released.                                                 *)
(*                                                                         *)
(* System calls run with interrupts off (SFMask), so a CPU runs one of     *)
(* them, or the timer handler, to its end.  program[c] is what CPU c has   *)
(* still to do.  The locks are those of spin: a reader of a RwLock waits   *)
(* for a writer to leave but not for one that waits.  Locks inside which   *)
(* no other lock of the kernel is taken are left out (LAPIC, CPUS,         *)
(* KERNEL_PAGE_TABLE with FRAME_ALLOCATOR, the descriptor tables with      *)
(* ROOT, the terminal): they are in no cycle.                              *)
(***************************************************************************)
EXTENDS Naturals, Sequences, SequencesExt, FiniteSets

CONSTANTS
  CPU,
  Kernel,       \* the kernel process; its threads stand as one, all taken inside SCHEDULER
  Proc,         \* user processes
  Running       \* those made before

VARIABLES
  program,      \* per CPU: steps to come
  holds,        \* per CPU: the locks it has, as a sequence of <<mode, lock>>
  current,      \* per CPU: current_threads, by process
  queue,        \* ready_threads, by process
  processes,    \* PROCESSES
  made,         \* processes that have been created
  exited,       \* processes that have called exit
  panicked

vars == <<program, holds, current, queue, processes, made, exited, panicked>>

Scheduler == <<"SCHEDULER", Kernel>>
Processes == <<"PROCESSES", Kernel>>
ProcessOf(p) == <<"process", p>>
ThreadOf(p) == <<"thread", p>>
Lock == {Scheduler, Processes} \cup ({"process", "thread"} \X (Proc \cup {Kernel}))

TypeOK ==
  /\ \A c \in CPU : ToSet(holds[c]) \subseteq {"read", "write"} \X Lock
  /\ current \in [CPU -> made \cup {Kernel}]
  /\ ToSet(queue) \cup ToSet(processes) \subseteq made \cup {Kernel}
  /\ exited \subseteq made /\ made \subseteq Proc
  /\ panicked \in BOOLEAN

-----------------------------------------------------------------------------
(* Steps of programs: take a lock in a mode, release it, or an effect.  A   *)
(* program that ends with a drop has an Arc of the process until then.      *)

Reads(l) == <<"read", l>>
Writes(l) == <<"write", l>>
Free(l) == <<"free", l>>
Do(what, p) == <<what, p>>

Looks(l) == <<Reads(l), Free(l)>>
Stores(l) == <<Writes(l), Free(l)>>
Each(ps, Prog(_)) == FlattenSeq([i \in DOMAIN ps |-> Prog(ps[i])])

(* The elements of a sequence up to the first p.                            *)
UpTo(ps, p) ==
  LET at == {i \in DOMAIN ps : ps[i] = p}
  IN  IF at = {} THEN ps ELSE SubSeq(ps, 1, CHOOSE i \in at : \A j \in at : i <= j)

(* A Weak of p, or of its thread, upgrades.                                 *)
Alive(p) == p \in ToSet(processes) \/ \E c \in CPU : Do("drop", p) \in ToSet(program[c])

(* Process::exit_process under the read locks of the thread and the process *)
exit_process(p) ==
  <<Reads(ThreadOf(p)), Reads(ProcessOf(p)), Writes(Processes), Do("scan", p), Do("unpublish", p),
    Free(Processes), Free(ProcessOf(p)), Free(ThreadOf(p)), Do("drop", p)>>

exit(p) == <<Writes(Scheduler), Do("remove", p), Free(Scheduler)>> \o exit_process(p)

(* kill_process: all of it with SCHEDULER locked.                           *)
kill_process(p) == <<Writes(Scheduler), Do("find", p), Free(Scheduler)>>

(* Mutant: the arguments are stored with the process still locked while the  *)
(* current process is asked for.                                            *)
execve_nested(p) ==
  Stores(ProcessOf(p))
    \o <<Writes(ProcessOf(p)), Writes(Scheduler), Do("add", p), Free(Scheduler), Free(ProcessOf(p))>>
    \o <<Writes(Processes), Do("publish", p), Free(Processes)>>
    \o <<Writes(ProcessOf(p)), Writes(Scheduler), Free(Scheduler), Free(ProcessOf(p)), Do("drop", p)>>

(* execve: new_user_process, in which new_user_thread takes SCHEDULER with  *)
(* the process locked, then the arguments and the process id.               *)
execve(p) ==
  Stores(ProcessOf(p))
    \o <<Writes(ProcessOf(p)), Writes(Scheduler), Do("add", p), Free(Scheduler), Free(ProcessOf(p))>>
    \o <<Writes(Processes), Do("publish", p), Free(Processes)>>
    \o Looks(ProcessOf(p)) \o Stores(ProcessOf(p)) \o Looks(ProcessOf(p)) \o <<Do("drop", p)>>

is_process_exited(p) == <<Reads(Processes), Do("scan", p), Free(Processes)>>

get_current_process_id(p) ==
  <<Writes(Scheduler), Free(Scheduler)>> \o Looks(ThreadOf(p)) \o Looks(ProcessOf(p))

timer_handler(p) == <<Writes(Scheduler), Do("schedule", p), Free(Scheduler)>>

-----------------------------------------------------------------------------
(* Locks                                                                    *)

Holds(c, mode, l) == <<mode, l>> \in ToSet(holds[c])

(* d keeps another CPU, or itself, from taking l.                           *)
Blocks(d, mode, l) == Holds(d, "write", l) \/ (mode = "write" /\ Holds(d, "read", l))

Waits(c, d) ==
  /\ program[c] # <<>>
  /\ Head(program[c])[1] \in {"read", "write"}
  /\ Blocks(d, Head(program[c])[1], Head(program[c])[2])

acquire(c, mode, l) ==
  /\ \A d \in CPU : ~Blocks(d, mode, l)
  /\ holds' = [holds EXCEPT ![c] = Append(@, <<mode, l>>)]
  /\ program' = [program EXCEPT ![c] = Tail(@)]
  /\ UNCHANGED <<current, queue, processes, exited, panicked>>

(* The guard taken last goes first.                                         *)
release(c, l) ==
  LET at == {i \in DOMAIN holds[c] : holds[c][i][2] = l}
  IN  /\ holds' = [holds EXCEPT ![c] = RemoveAt(@, CHOOSE i \in at : \A j \in at : j <= i)]
      /\ program' = [program EXCEPT ![c] = Tail(@)]
      /\ UNCHANGED <<current, queue, processes, exited, panicked>>

-----------------------------------------------------------------------------
(* What the code does between two locks, and the locks it goes on to take.  *)

Goes(c, prog) == program' = [program EXCEPT ![c] = prog \o Tail(@)]

(* An unwrap of a dead thread: the panic handler calls exit, and the guards *)
(* of the code that panicked are never dropped.                             *)
panic(c) ==
  /\ panicked' = TRUE /\ program' = [program EXCEPT ![c] = exit(current[c])]
  /\ UNCHANGED <<current, queue, processes, exited>>

AllAlive(ps) == \A i \in DOMAIN ps : ps[i] = Kernel \/ Alive(ps[i])

scan(c, p) ==
  /\ Goes(c, Each(UpTo(processes, p), LAMBDA q : Looks(ProcessOf(q))))
  /\ UNCHANGED <<current, queue, processes, exited, panicked>>

unpublish(c, p) ==
  /\ processes' = SelectSeq(processes, LAMBDA q : q # p)
  /\ Goes(c, <<>>) /\ UNCHANGED <<current, queue, exited, panicked>>

publish(c, p) ==
  /\ processes' = Append(processes, p)
  /\ Goes(c, <<>>) /\ UNCHANGED <<current, queue, exited, panicked>>

add(c, p) ==
  /\ queue' = Append(queue, p)
  /\ Goes(c, <<>>) /\ UNCHANGED <<current, processes, exited, panicked>>

remove(c, p) ==
  IF AllAlive(queue)
  THEN /\ queue' = SelectSeq(queue, LAMBDA q : q # p)
       /\ Goes(c, <<>>) /\ UNCHANGED <<current, processes, exited, panicked>>
  ELSE panic(c)

find(c, p) ==
  IF AllAlive(UpTo(queue, p))
  THEN /\ Goes(c, Each(UpTo(queue, p), LAMBDA q : <<Reads(ThreadOf(q)), Reads(ProcessOf(q)),
                                                    Free(ProcessOf(q)), Free(ThreadOf(q))>>)
                    \o (IF p \in ToSet(queue) THEN <<Do("remove", p)>> \o exit_process(p) ELSE <<>>))
       /\ UNCHANGED <<current, queue, processes, exited, panicked>>
  ELSE panic(c)

schedule(c, p) ==
  LET last == IF p = Kernel \/ Alive(p) THEN <<p>> ELSE <<>>
      next == IF queue = <<>> THEN p ELSE Head(queue)
  IN  IF AllAlive(<<next>>)
      THEN /\ queue' = IF queue = <<>> THEN queue ELSE Tail(queue) \o last
           /\ current' = [current EXCEPT ![c] = next]
           /\ Goes(c, Each(last, LAMBDA q : Stores(ThreadOf(q)) \o Stores(ThreadOf(q))) \o Looks(ThreadOf(next)))
           /\ UNCHANGED <<processes, exited, panicked>>
      ELSE panic(c)

drop(c, p) ==
  /\ exited' = IF current[c] = p THEN exited \cup {p} ELSE exited
  /\ Goes(c, <<>>) /\ UNCHANGED <<current, queue, processes, panicked>>

effect(c, what, p) ==
  /\ UNCHANGED holds
  /\ CASE what = "scan" -> scan(c, p)       [] what = "unpublish" -> unpublish(c, p)
       [] what = "publish" -> publish(c, p) [] what = "add" -> add(c, p)
       [] what = "remove" -> remove(c, p)   [] what = "find" -> find(c, p)
       [] what = "schedule" -> schedule(c, p) [] what = "drop" -> drop(c, p)

Step(c) ==
  /\ program[c] # <<>> /\ UNCHANGED made
  /\ LET s == Head(program[c])
     IN  CASE s[1] \in {"read", "write"} -> acquire(c, s[1], s[2])
           [] s[1] = "free" -> release(c, s[2])
           [] OTHER -> effect(c, s[1], s[2])

-----------------------------------------------------------------------------
Begin(c, prog) ==
  /\ program[c] = <<>> /\ program' = [program EXCEPT ![c] = prog]
  /\ UNCHANGED <<holds, current, queue, processes, exited, panicked>>

(* A system call of a process that has not exited.                          *)
Calls(c) == program[c] = <<>> /\ current[c] \in Proc \ exited

SysExit(c) == Calls(c) /\ Begin(c, exit(current[c])) /\ UNCHANGED made
SysKill(c) == Calls(c) /\ (\E p \in made : Begin(c, kill_process(p))) /\ UNCHANGED made
SysExecve(c) == Calls(c) /\ \E p \in Proc \ made : Begin(c, execve(p)) /\ made' = made \cup {p}
SysIsExited(c) == Calls(c) /\ (\E p \in made : Begin(c, is_process_exited(p))) /\ UNCHANGED made
SysGetPid(c) == Calls(c) /\ Begin(c, get_current_process_id(current[c])) /\ UNCHANGED made
Timer(c) == Begin(c, timer_handler(current[c])) /\ UNCHANGED made

(* Some processes are ready; every CPU runs a thread of the kernel.         *)
Init ==
  /\ program = [c \in CPU |-> <<>>] /\ holds = [c \in CPU |-> <<>>]
  /\ current = [c \in CPU |-> Kernel]
  /\ made = Running
  /\ queue = SetToSeq(made) /\ processes = <<Kernel>> \o SetToSeq(made)
  /\ exited = {} /\ panicked = FALSE

Next ==
  \E c \in CPU :
    Step(c) \/ SysExit(c) \/ SysKill(c) \/ SysExecve(c) \/ SysIsExited(c) \/ SysGetPid(c) \/ Timer(c)

Spec == Init /\ [][Next]_vars

-----------------------------------------------------------------------------
(* As long as nothing has panicked, no CPUs wait for each other's locks in  *)
(* a circle and none for its own: new_user_thread takes the scheduler       *)
(* inside a process, and everything else a process inside the scheduler,    *)
(* but nobody else reaches a process that is still being made.              *)
NoDeadlock ==
  ~panicked => ~\E S \in SUBSET CPU : S # {} /\ \A c \in S : \E d \in S : Waits(c, d)
=============================================================================
