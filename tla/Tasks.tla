-------------------------------- MODULE Tasks --------------------------------
(***************************************************************************)
(* Threads, processes and the SMP round-robin scheduler of the kernel      *)
(* (kernel/src/task, the process system calls of kernel/src/syscall and    *)
(* the timer interrupt of kernel/src/arch/interrupts.rs).                  *)
(*                                                                         *)
(* A system call runs with interrupts off on its own CPU only (SFMask), so *)
(* a step below is what a CPU does between two points where another CPU    *)
(* can interfere: one critical section of SCHEDULER or PROCESSES, or one   *)
(* store of execve.  Every user process has exactly one thread, so both    *)
(* are named by the process id; the init thread of a CPU is named after    *)
(* the CPU.                                                                *)
(***************************************************************************)
EXTENDS Naturals, Sequences, FiniteSets, SequencesExt

CONSTANTS
  Cpu,        \* local APIC ids, the keys of CPUS
  Keyboard,   \* the kernel thread keyboard_parse_thread
  Pid,        \* ids of user processes, and of their single threads
  InitPid,    \* the process "init", created by the boot CPU
  KernelPid,  \* id of KERNEL_PROCESS
  KillPids,   \* the process ids that programs pass to kill
  NoPid,      \* absence of a process
  Fs,         \* values of the FS base register
  Fs0         \* its value at boot

KernelThread == Cpu \cup {Keyboard}
Thread == KernelThread \cup Pid

ASSUME ConstantsAssumption ==
  /\ IsFiniteSet(Cpu) /\ Cpu # {}
  /\ Keyboard \notin Cpu
  /\ KernelThread \cap Pid = {}
  /\ InitPid \in Pid
  /\ KernelPid \notin Pid
  /\ NoPid \notin Pid
  /\ KillPids \subseteq Pid \cup {KernelPid}
  /\ Fs0 \in Fs

VARIABLES
  current,     \* Scheduler::current_threads
  ready,       \* Scheduler::ready_threads
  processes,   \* ids in PROCESSES
  fdManagers,  \* keys of FILE_DESCRIPTOR_MANAGERS
  args,        \* how many of args_value, args_len execve has stored
  created,     \* ids handed out by ProcessId::new
  pc,          \* where each CPU is: "run" with interrupts on, else in a system
               \* call, or "panic" inside the critical section of SCHEDULER
  child,       \* the process whose Arc the execve of a CPU holds
  waiting,     \* the process a thread is polling in vstd::task::wait
  fs,          \* FS base register of each CPU
  fsbase,      \* Thread::fsbase
  rsp0,        \* whose kernel stack the TSS of each CPU points to
  ended,       \* history: processes that called exit or were killed
  fsOf         \* history: the FS base each thread last had

schedVars == <<current, ready, fs, fsbase, rsp0>>
vars == <<current, ready, processes, fdManagers, args, created, pc, child,
          waiting, fs, fsbase, rsp0, ended, fsOf>>

SyscallStep == {"push", "fds", "args_value", "args_len", "return", "exit"}

TypeOK ==
  /\ current \in [Cpu -> Thread]
  /\ ready \in Seq(Thread)
  /\ processes \subseteq Pid \cup {KernelPid}
  /\ fdManagers \subseteq Pid
  /\ args \in [Pid -> 0..2]
  /\ created \subseteq Pid
  /\ pc \in [Cpu -> {"run", "panic"} \cup SyscallStep]
  /\ child \in [Cpu -> Pid \cup {NoPid}]
  /\ waiting \in [Pid -> Pid \cup {NoPid}]
  /\ fs \in [Cpu -> Fs]
  /\ fsbase \in [Thread -> Fs]
  /\ rsp0 \in [Cpu -> Thread]
  /\ ended \subseteq Pid
  /\ fsOf \in [Thread -> Fs]

-----------------------------------------------------------------------------
Queued(t) == t \in Range(ready)
Running(t) == t \in Range(current)

(* The panic handler calls exit, which locks SCHEDULER again: after a      *)
(* panic inside its critical section nobody gets it any more.              *)
SchedulerFree == \A c \in Cpu : pc[c] # "panic"

(* Weak::upgrade succeeds: a kernel thread is kept by the static           *)
(* KERNEL_PROCESS, a user thread by its Process, and that by PROCESSES or  *)
(* by the Arc which an execve still in progress holds.                     *)
Alive(t) ==
  \/ t \in KernelThread
  \/ t \in processes
  \/ \E c \in Cpu : child[c] = t

ThreadsOf(pid) == IF pid = KernelPid THEN KernelThread ELSE {pid}

(* SCHEDULER holds no thread twice (Exclusive), so dropping every entry    *)
(* that is pointer-equal to t is dropping the one entry there may be.      *)
remove(t) ==
  IF Queued(t)
  THEN RemoveAt(ready, CHOOSE i \in DOMAIN ready : ready[i] = t)
  ELSE ready

(* The first ready thread of a process, as an index; 0 for None.           *)
find(pid) ==
  LET match == {i \in DOMAIN ready : ready[i] \in ThreadsOf(pid)}
  IN  IF match = {} THEN 0
      ELSE CHOOSE i \in match : \A j \in match : i <= j

(* Mutant: the boot CPU does not start the keyboard thread.                *)
boot_queue_no_keyboard == <<InitPid>>

(* What the boot CPU adds: keyboard_parse_thread, then the process init.   *)
boot_queue == <<Keyboard, InitPid>>

(* Boot: Scheduler::new gives every CPU an init thread; the boot CPU adds  *)
(* the keyboard thread and the process init before START_SCHEDULE lets any *)
(* CPU take a timer interrupt.                                             *)
Init ==
  /\ current = [c \in Cpu |-> c]
  /\ ready = boot_queue
  /\ processes = {KernelPid, InitPid}
  /\ fdManagers = {InitPid}
  /\ args = [p \in Pid |-> 0]
  /\ created = {InitPid}
  /\ pc = [c \in Cpu |-> "run"]
  /\ child = [c \in Cpu |-> NoPid]
  /\ waiting = [p \in Pid |-> NoPid]
  /\ fs = [c \in Cpu |-> Fs0]
  /\ fsbase = [t \in Thread |-> Fs0]
  /\ rsp0 = [c \in Cpu |-> c]
  /\ ended = {}
  /\ fsOf = [t \in Thread |-> Fs0]

-----------------------------------------------------------------------------
(* Mutant: the other end of the queue is served.                           *)
next_thread_back(c) == IF ready = <<>> THEN current[c] ELSE ready[Len(ready)]

(* The three parts of Scheduler::schedule on CPU c.  Only a thread that    *)
(* still exists and that another one replaces is saved and queued again.   *)
next_thread(c) == IF ready = <<>> THEN current[c] ELSE Head(ready)

(* Mutant: front instead of pop_front.                                     *)
ready_after_peek(c) ==
  IF ready # <<>> /\ Alive(current[c]) THEN Append(ready, current[c]) ELSE ready

(* Mutant: the last thread is not pushed back.                             *)
ready_after_dropping(c) == IF ready = <<>> THEN ready ELSE Tail(ready)

(* Mutant: push_front instead of push_back.                                *)
ready_after_push_front(c) ==
  CASE ready = <<>>                      -> ready
    [] ready # <<>> /\ Alive(current[c]) -> <<current[c]>> \o Tail(ready)
    [] OTHER                             -> Tail(ready)

ready_after(c) ==
  CASE ready = <<>>                      -> ready
    [] ready # <<>> /\ Alive(current[c]) -> Append(Tail(ready), current[c])
    [] OTHER                             -> Tail(ready)

(* Mutant: schedule does not call save_fsbase.                             *)
save_fsbase_missing(c) == fsbase

save_fsbase(c) ==
  IF ready # <<>> /\ Alive(current[c])
  THEN [fsbase EXCEPT ![current[c]] = fs[c]]
  ELSE fsbase

(* Mutant: schedule does not call set_ring0_rsp.                           *)
set_ring0_rsp_missing(c) == rsp0

set_ring0_rsp(c) == [rsp0 EXCEPT ![c] = next_thread(c)]

(* Mutant: SFMask leaves interrupts on in system calls.                    *)
timer_interrupt_in_syscall(c) ==
  /\ SchedulerFree
  /\ Alive(next_thread(c))
  /\ current' = [current EXCEPT ![c] = next_thread(c)]
  /\ ready' = ready_after(c)
  /\ fsbase' = save_fsbase(c)
  /\ fs' = [fs EXCEPT ![c] = fsbase'[next_thread(c)]]
  /\ rsp0' = set_ring0_rsp(c)
  /\ UNCHANGED <<processes, fdManagers, args, created, pc, child, waiting,
                 ended, fsOf>>

(* The timer interrupt: save the context of the current thread, rotate the *)
(* ready queue, load the FS base and the ring-0 stack of the next thread.  *)
(* Unwrapping a dead next thread panics.                                   *)
timer_interrupt(c) ==
  LET dies == ~ Alive(next_thread(c)) IN
  /\ pc[c] = "run"
  /\ SchedulerFree
  /\ current' = [current EXCEPT ![c] = next_thread(c)]
  /\ ready' = ready_after(c)
  /\ fsbase' = save_fsbase(c)
  /\ fs' = IF dies THEN fs ELSE [fs EXCEPT ![c] = fsbase'[next_thread(c)]]
  /\ rsp0' = IF dies THEN rsp0 ELSE set_ring0_rsp(c)
  /\ pc' = IF dies THEN [pc EXCEPT ![c] = "panic"] ELSE pc
  /\ UNCHANGED <<processes, fdManagers, args, created, child, waiting, ended,
                 fsOf>>

(* CPU c runs the code of a user program: between system calls, neither    *)
(* polling in wait nor spinning after exit.                                *)
InUserCode(c) ==
  /\ pc[c] = "run"
  /\ current[c] \in Pid \ ended
  /\ waiting[current[c]] = NoPid

(* A user program sets its FS base (wrfsbase, when CR4.FSGSBASE is set).   *)
wrfsbase(c) ==
  /\ InUserCode(c)
  /\ \E v \in Fs : /\ fs' = [fs EXCEPT ![c] = v]
                   /\ fsOf' = [fsOf EXCEPT ![current[c]] = v]
  /\ UNCHANGED <<current, ready, processes, fdManagers, args, created, pc,
                 child, waiting, fsbase, rsp0, ended>>

-----------------------------------------------------------------------------
(* execve.  new_user_process makes the Process and its thread; the thread  *)
(* is in the ready queue as soon as new_user_thread returns, with the FS   *)
(* base of the creating CPU.                                               *)
new_user_thread(c) ==
  /\ InUserCode(c)
  /\ SchedulerFree
  /\ \E p \in Pid \ created :
       /\ created' = created \cup {p}
       /\ ready' = Append(ready, p)
       /\ fsbase' = [fsbase EXCEPT ![p] = fs[c]]
       /\ fsOf' = [fsOf EXCEPT ![p] = fs[c]]
       /\ child' = [child EXCEPT ![c] = p]
  /\ pc' = [pc EXCEPT ![c] = "push"]
  /\ UNCHANGED <<current, processes, fdManagers, args, waiting, fs, rsp0,
                 ended>>

(* PROCESSES.write().push_back(process.clone())                            *)
push_process(c) ==
  /\ pc[c] = "push"
  /\ processes' = processes \cup {child[c]}
  /\ pc' = [pc EXCEPT ![c] = "fds"]
  /\ UNCHANGED <<schedVars, fdManagers, args, created, child, waiting, ended,
                 fsOf>>

init_file_descriptor_manager(c) ==
  /\ pc[c] = "fds"
  /\ fdManagers' = fdManagers \cup {child[c]}
  /\ pc' = [pc EXCEPT ![c] = "args_value"]
  /\ UNCHANGED <<schedVars, processes, args, created, child, waiting, ended,
                 fsOf>>

(* Mutant: the second store of the arguments is repeated.                  *)
store_args_repeating(c) ==
  /\ pc[c] \in {"args_value", "args_len"}
  /\ args' = [args EXCEPT ![child[c]] = @ + 1]
  /\ pc' = [pc EXCEPT ![c] = "args_len"]
  /\ UNCHANGED <<schedVars, processes, fdManagers, created, child, waiting,
                 ended, fsOf>>

(* execve stores args_value and then args_len, each under its own lock.    *)
store_args(c) ==
  /\ pc[c] \in {"args_value", "args_len"}
  /\ args' = [args EXCEPT ![child[c]] = IF pc[c] = "args_value" THEN 1 ELSE 2]
  /\ pc' = [pc EXCEPT ![c] = IF @ = "args_value" THEN "args_len" ELSE "return"]
  /\ UNCHANGED <<schedVars, processes, fdManagers, created, child, waiting,
                 ended, fsOf>>

(* execve returns the process id and drops its Arc; init and the shell     *)
(* call wait on the id at once.                                            *)
execve_return(c) ==
  /\ pc[c] = "return"
  /\ child' = [child EXCEPT ![c] = NoPid]
  /\ waiting' = [waiting EXCEPT ![current[c]] = child[c]]
  /\ pc' = [pc EXCEPT ![c] = "run"]
  /\ UNCHANGED <<schedVars, processes, fdManagers, args, created, ended, fsOf>>

-----------------------------------------------------------------------------
(* One round of wait that finds the process gone from PROCESSES.           *)
is_exited(c) ==
  /\ pc[c] = "run"
  /\ current[c] \in Pid \ ended
  /\ waiting[current[c]] \notin processes \cup {NoPid}
  /\ waiting' = [waiting EXCEPT ![current[c]] = NoPid]
  /\ UNCHANGED <<schedVars, processes, fdManagers, args, created, pc, child,
                 ended, fsOf>>

(* exit: SCHEDULER.remove unwraps every ready thread and drops the caller; *)
(* then, outside SCHEDULER, exit_process drops the Process from PROCESSES. *)
(* The program spins until the next timer interrupt.                       *)
exit(c) ==
  LET dies == \E t \in Range(ready) : ~ Alive(t)
  IN
  /\ InUserCode(c)
  /\ SchedulerFree
  /\ ready' = IF dies THEN ready ELSE remove(current[c])
  /\ pc' = [pc EXCEPT ![c] = IF dies THEN "panic" ELSE "exit"]
  /\ UNCHANGED <<current, processes, fdManagers, args, created, child,
                 waiting, fs, fsbase, rsp0, ended, fsOf>>

(* Mutant: the entry stays in PROCESSES.                                   *)
exit_process_keeping(c) ==
  /\ pc[c] = "exit"
  /\ ended' = ended \cup {current[c]}
  /\ pc' = [pc EXCEPT ![c] = "run"]
  /\ UNCHANGED <<schedVars, processes, fdManagers, args, created, child,
                 waiting, fsOf>>

exit_process(c) ==
  /\ pc[c] = "exit"
  /\ processes' = processes \ {current[c]}
  /\ ended' = ended \cup {current[c]}
  /\ pc' = [pc EXCEPT ![c] = "run"]
  /\ UNCHANGED <<schedVars, fdManagers, args, created, child, waiting, fsOf>>

(* Mutant: SCHEDULER.remove is not called.                                 *)
kill_process_still_queued(c, pid) ==
  /\ InUserCode(c)
  /\ SchedulerFree
  /\ find(pid) # 0
  /\ processes' = processes \ {pid}
  /\ ended' = ended \cup ({pid} \cap Pid)
  /\ UNCHANGED <<schedVars, fdManagers, args, created, pc, child, waiting,
                 fsOf>>

(* Mutant: exit_process is not called.                                     *)
kill_process_without_exit(c, pid) ==
  /\ InUserCode(c)
  /\ SchedulerFree
  /\ find(pid) # 0
  /\ ready' = remove(ready[find(pid)])
  /\ ended' = ended \cup ({pid} \cap Pid)
  /\ UNCHANGED <<current, processes, fdManagers, args, created, pc, child,
                 waiting, fs, fsbase, rsp0, fsOf>>

(* kill: only a thread in the ready queue is found; find unwraps the       *)
(* entries up to the match, and remove all of them.  exit_process runs     *)
(* before SCHEDULER is released.                                           *)
kill_process(c, pid) ==
  LET i == find(pid)
      dies == \E t \in Range(ready) : ~ Alive(t)
  IN
  /\ InUserCode(c)
  /\ SchedulerFree
  /\ dies \/ i # 0
  /\ ready' = IF dies THEN ready ELSE remove(ready[i])
  /\ processes' = IF dies THEN processes ELSE processes \ {pid}
  /\ ended' = IF dies THEN ended ELSE ended \cup ({pid} \cap Pid)
  /\ pc' = IF dies THEN [pc EXCEPT ![c] = "panic"] ELSE pc
  /\ UNCHANGED <<current, fdManagers, args, created, child, waiting, fs,
                 fsbase, rsp0, fsOf>>

CpuStep(c) ==
  \/ timer_interrupt(c)
  \/ wrfsbase(c)
  \/ new_user_thread(c)
  \/ push_process(c)
  \/ init_file_descriptor_manager(c)
  \/ store_args(c)
  \/ execve_return(c)
  \/ is_exited(c)
  \/ exit(c)
  \/ exit_process(c)
  \/ \E pid \in KillPids : kill_process(c, pid)

Next == \E c \in Cpu : CpuStep(c)

Spec == Init /\ [][Next]_vars

(* The LAPIC timer of every CPU keeps firing, a CPU inside a system call   *)
(* keeps executing it, and a polling program that gets the CPU again and   *)
(* again gets through a round of wait within some time slice.              *)
Fairness ==
  \A c \in Cpu :
    /\ WF_vars(timer_interrupt(c))
    /\ WF_vars(\/ push_process(c) \/ init_file_descriptor_manager(c)
               \/ store_args(c) \/ execve_return(c) \/ exit_process(c))
    /\ SF_vars(is_exited(c))

FairSpec == Spec /\ Fairness

-----------------------------------------------------------------------------
(* schedule, add and remove never let one thread be current on two CPUs,   *)
(* be queued twice, or be queued while it is current: two CPUs would       *)
(* execute on one kernel stack and one saved context.                      *)
Exclusive ==
  /\ IsInjective(current)
  /\ IsInjective(ready)
  /\ Range(current) \cap Range(ready) = {}

(* A thread that neither exited nor was killed is on a CPU or in the ready *)
(* queue: no path through schedule or execve drops one.                    *)
NoThreadLost ==
  \A t \in KernelThread \cup (created \ ended) : Running(t) \/ Queued(t)

(* The ready queue is never empty, so schedule always has a next thread:   *)
(* a CPU whose thread has exited can unwrap its new current thread, and    *)
(* restore_fsbase never reloads a stale value into a thread that was not   *)
(* switched out.  It rests on the keyboard thread being one more kernel    *)
(* thread than there are CPUs.                                             *)
ReadyNeverEmpty == ready # <<>>

(* save_fsbase and restore_fsbase keep the FS base of every thread across  *)
(* any sequence of switches and migrations between CPUs.                   *)
FsPreserved ==
  /\ \A t \in Range(ready) : fsbase[t] = fsOf[t]
  /\ \A c \in Cpu : SchedulerFree => fs[c] = fsOf[current[c]]

(* An interrupt taken in user mode lands on the kernel stack of the thread *)
(* that the CPU runs, never on that of another thread.                     *)
InterruptStack == \A c \in Cpu : SchedulerFree => rsp0[c] = current[c]

(* Scheduling: a thread that lives is in exactly one place, on one CPU or   *)
(* once in the queue, and there is always a next one to switch to.          *)
ThreadsSound == TypeOK /\ Exclusive /\ NoThreadLost /\ ReadyNeverEmpty

(* Switching: a thread comes back to its own FS base and its own kernel     *)
(* stack.                                                                   *)
ContextSound == FsPreserved /\ InterruptStack

(* Every Weak in the ready queue can be upgraded: schedule, find and       *)
(* remove unwrap them while SCHEDULER is locked.                           *)
NoDeadThreadQueued ==
  SchedulerFree /\ \A t \in Range(ready) : Alive(t)

(* A user program that runs has what new_user_process and execve give it:  *)
(* stdin, stdout and stderr, its entry in PROCESSES and, unless it is      *)
(* init, its arguments.                                                    *)
ProcessComplete ==
  \A c \in Cpu : current[c] \in Pid \ ended =>
    /\ current[c] \in fdManagers \cap processes
    /\ current[c] # InitPid => args[current[c]] = 2

(* On one CPU the tables agree with what runs: no queued thread is dead and *)
(* no process runs half made.                                               *)
TablesSound == NoDeadThreadQueued /\ ProcessComplete

(* A process that exited or was killed is reported as exited by            *)
(* is_process_exited and is never queued again.                            *)
EndedForGood == \A p \in ended : p \notin processes /\ ~ Queued(p)

(* Round robin starves nobody: a queued thread gets a CPU or is killed.    *)
NoStarvation == \A t \in Thread : Queued(t) ~> ~ Queued(t)

(* wait returns once the process waited for has exited or been killed,     *)
(* unless the waiting process is killed itself.                            *)
WaitReturns ==
  \A t, p \in Pid :
    (waiting[t] = p /\ p \in ended) ~> (waiting[t] # p \/ t \in ended)

(* The scheduler implements the abstract run queue.                        *)
RQ == INSTANCE RunQueue
        WITH running <- current,
             runnable <- Range(ready),
             admitted <- KernelThread \cup created

RunQueueSpec == RQ!Spec
=============================================================================
