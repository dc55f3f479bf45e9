------------------------------- MODULE Pthread -------------------------------
(***************************************************************************)
(* The life of the threads of relibc (relibc/src/pthread/mod.rs and        *)
(* sync/waitval.rs): create and the new thread's shim, exit, join, detach, *)
(* and the table OS_TID_TO_PTHREAD.  Each thread of Child is created by    *)
(* some thread of the program, which joins it or detaches it at most once  *)
(* and only after create has returned, as POSIX asks.                      *)
(***************************************************************************)
EXTENDS Naturals

CONSTANT Child

VARIABLES
  creator,     \* how far create is, for each thread
  tid_mutex,   \* whether the creator still holds the guard of tid_mutex
  sync_mutex,  \* whether synchronization_mutex is still locked
  child,       \* where each thread is
  detached,    \* the DETACHED flag
  state,       \* the word of each Waitval
  value,       \* whether the value of each Waitval has been written
  joiner,      \* where the thread that joins it is
  asleep,      \* the joiners asleep in futex_wait
  stack,       \* the threads whose stack is mapped
  table        \* the threads in OS_TID_TO_PTHREAD

createVars == <<creator, tid_mutex, sync_mutex>>
waitval == <<state, value, asleep>>
vars == <<createVars, child, detached, waitval, joiner, stack, table>>

TypeOK ==
  /\ creator \in [Child -> {"none", "clone", "guard", "lock", "insert", "ok", "error"}]
  /\ tid_mutex \in [Child -> BOOLEAN]
  /\ sync_mutex \in [Child -> BOOLEAN]
  /\ child \in [Child -> {"unborn", "tid", "unlock", "running", "dealloc", "write",
                          "store", "wake", "exit_thread", "gone"}]
  /\ detached \in [Child -> BOOLEAN]
  /\ state \in [Child -> {0, 1}]
  /\ value \in [Child -> BOOLEAN]
  /\ joiner \in [Child -> {"none", "load", "futex_wait", "sleep", "read", "uninit", "dealloc", "joined"}]
  /\ asleep \subseteq {c \in Child : joiner[c] = "sleep"}
  /\ stack \subseteq Child
  /\ table \subseteq Child

Init ==
  /\ creator = [c \in Child |-> "none"]
  /\ tid_mutex = [c \in Child |-> FALSE]
  /\ sync_mutex = [c \in Child |-> FALSE]
  /\ child = [c \in Child |-> "unborn"]
  /\ detached = [c \in Child |-> FALSE]
  /\ state = [c \in Child |-> 0]
  /\ value = [c \in Child |-> FALSE]
  /\ joiner = [c \in Child |-> "none"]
  /\ asleep = {}
  /\ stack = {}
  /\ table = {}

Creator(c, from, to) == creator[c] = from /\ creator' = [creator EXCEPT ![c] = to]
Run(c, from, to) == child[c] = from /\ child' = [child EXCEPT ![c] = to]
Join(c, from, to) == joiner[c] = from /\ joiner' = [joiner EXCEPT ![c] = to]

-----------------------------------------------------------------------------
(* create                                                                   *)

(* synchronization_mutex is made locked, tid_mutex is locked, and the stack *)
(* is mapped, or create returns EAGAIN.                                     *)
create(c, attr) ==
  /\ \/ /\ Creator(c, "none", "clone")
        /\ tid_mutex' = [tid_mutex EXCEPT ![c] = TRUE]
        /\ sync_mutex' = [sync_mutex EXCEPT ![c] = TRUE]
        /\ detached' = [detached EXCEPT ![c] = attr]
        /\ stack' = stack \cup {c}
     \/ Creator(c, "none", "error") /\ UNCHANGED <<tid_mutex, sync_mutex, detached, stack>>
  /\ UNCHANGED <<child, waitval, joiner, table>>

(* Mutant: the guard that unmaps the stack is not forgotten.                *)
rlct_clone_dropped(c) ==
  /\ Creator(c, "clone", "guard")
  /\ Run(c, "unborn", "tid")
  /\ stack' = stack \ {c}
  /\ UNCHANGED <<tid_mutex, sync_mutex, detached, waitval, joiner, table>>

(* Tcb::new and rlct_clone; when either fails MmapGuard unmaps the stack.   *)
rlct_clone(c) ==
  /\ \/ Creator(c, "clone", "guard") /\ Run(c, "unborn", "tid") /\ UNCHANGED stack
     \/ Creator(c, "clone", "error") /\ stack' = stack \ {c} /\ UNCHANGED child
  /\ UNCHANGED <<tid_mutex, sync_mutex, detached, waitval, joiner, table>>

(* The thread's id is written and the guard dropped.                        *)
tid_write(c) ==
  /\ Creator(c, "guard", "lock")
  /\ tid_mutex' = [tid_mutex EXCEPT ![c] = FALSE]
  /\ UNCHANGED <<sync_mutex, child, detached, waitval, joiner, stack, table>>

(* Mutant: create does not wait for the thread.                             *)
sync_lock_skipped(c) ==
  /\ Creator(c, "lock", "insert")
  /\ UNCHANGED <<tid_mutex, sync_mutex, child, detached, waitval, joiner, stack, table>>

(* synchronization_mutex.lock() returns when the thread has unlocked it.    *)
sync_lock(c) ==
  /\ ~sync_mutex[c]
  /\ Creator(c, "lock", "insert")
  /\ UNCHANGED <<tid_mutex, sync_mutex, child, detached, waitval, joiner, stack, table>>

insert(c) ==
  /\ Creator(c, "insert", "ok")
  /\ table' = table \cup {c}
  /\ UNCHANGED <<tid_mutex, sync_mutex, child, detached, waitval, joiner, stack>>

-----------------------------------------------------------------------------
(* The thread: new_thread_shim and exit_current_thread.                     *)

shim_tid(c) ==
  /\ ~tid_mutex[c]
  /\ Run(c, "tid", "unlock")
  /\ UNCHANGED <<createVars, detached, waitval, joiner, stack, table>>

shim_unlock(c) ==
  /\ Run(c, "unlock", "running")
  /\ sync_mutex' = [sync_mutex EXCEPT ![c] = FALSE]
  /\ UNCHANGED <<creator, tid_mutex, detached, waitval, joiner, stack, table>>

(* The entry point returns, or pthread_exit is called; the flags are read.  *)
exit_current_thread(c) ==
  /\ Run(c, "running", IF detached[c] THEN "dealloc" ELSE "write")
  /\ UNCHANGED <<createVars, detached, waitval, joiner, stack, table>>

exit_dealloc(c) ==
  /\ Run(c, "dealloc", "exit_thread")
  /\ table' = table \ {c}
  /\ UNCHANGED <<createVars, detached, waitval, joiner, stack>>

(* Mutant: the word is stored before the value.                             *)
post_store_first(c) ==
  /\ \/ Run(c, "write", "store") /\ state' = [state EXCEPT ![c] = 1] /\ UNCHANGED <<value, asleep>>
     \/ Run(c, "store", "wake") /\ value' = [value EXCEPT ![c] = TRUE] /\ UNCHANGED <<state, asleep>>
     \/ Run(c, "wake", "exit_thread") /\ asleep' = asleep \ {c} /\ UNCHANGED <<state, value>>
  /\ UNCHANGED <<createVars, detached, joiner, stack, table>>

(* Mutant: the sleeping joiner is not woken.                                *)
post_quiet(c) ==
  /\ \/ Run(c, "write", "store") /\ value' = [value EXCEPT ![c] = TRUE] /\ UNCHANGED <<state, asleep>>
     \/ Run(c, "store", "exit_thread") /\ state' = [state EXCEPT ![c] = 1] /\ UNCHANGED <<value, asleep>>
  /\ UNCHANGED <<createVars, detached, joiner, stack, table>>

(* Waitval::post: the value, the word, the wake-up.                         *)
post(c) ==
  /\ \/ Run(c, "write", "store") /\ value' = [value EXCEPT ![c] = TRUE] /\ UNCHANGED <<state, asleep>>
     \/ Run(c, "store", "wake") /\ state' = [state EXCEPT ![c] = 1] /\ UNCHANGED <<value, asleep>>
     \/ Run(c, "wake", "exit_thread") /\ asleep' = asleep \ {c} /\ UNCHANGED <<state, value>>
  /\ UNCHANGED <<createVars, detached, joiner, stack, table>>

(* Sys::exit_thread frees the stack it is given.                            *)
exit_thread(c) ==
  /\ Run(c, "exit_thread", "gone")
  /\ stack' = stack \ {c}
  /\ UNCHANGED <<createVars, detached, waitval, joiner, table>>

-----------------------------------------------------------------------------
(* join and detach                                                          *)

join(c) ==
  /\ creator[c] = "ok" /\ ~detached[c]
  /\ Join(c, "none", "load")
  /\ UNCHANGED <<createVars, child, detached, waitval, stack, table>>

(* Mutant: the joiner goes on while the kernel has it asleep.               *)
wait_unblocked(c) ==
  /\ \/ Join(c, "load", IF state[c] = 0 THEN "futex_wait" ELSE "read") /\ UNCHANGED asleep
     \/ Join(c, "futex_wait", "sleep") /\ asleep' = asleep \cup {c}
     \/ Join(c, "sleep", "load") /\ UNCHANGED asleep
  /\ UNCHANGED <<createVars, child, detached, state, value, stack, table>>

(* Waitval::wait: a loop over a load and futex_wait, then the value.        *)
wait(c) ==
  /\ \/ Join(c, "load", IF state[c] = 0 THEN "futex_wait" ELSE "read") /\ UNCHANGED asleep
     \/ state[c] = 0 /\ Join(c, "futex_wait", "sleep") /\ asleep' = asleep \cup {c}
     \/ state[c] # 0 /\ Join(c, "futex_wait", "load") /\ UNCHANGED asleep
     \/ c \notin asleep /\ Join(c, "sleep", "load") /\ UNCHANGED asleep
     \/ Join(c, "read", IF value[c] THEN "dealloc" ELSE "uninit") /\ UNCHANGED asleep
  /\ UNCHANGED <<createVars, child, detached, state, value, stack, table>>

spurious(c) ==
  /\ c \in asleep
  /\ asleep' = asleep \ {c}
  /\ UNCHANGED <<createVars, child, detached, state, value, joiner, stack, table>>

(* Mutant: the joined thread stays in the table.                            *)
join_dealloc_skipped(c) ==
  /\ Join(c, "dealloc", "joined")
  /\ UNCHANGED <<createVars, child, detached, waitval, stack, table>>

join_dealloc(c) ==
  /\ Join(c, "dealloc", "joined")
  /\ table' = table \ {c}
  /\ UNCHANGED <<createVars, child, detached, waitval, stack>>

detach(c) ==
  /\ creator[c] = "ok" /\ joiner[c] = "none" /\ ~detached[c]
  /\ detached' = [detached EXCEPT ![c] = TRUE]
  /\ UNCHANGED <<createVars, child, waitval, joiner, stack, table>>

(* What the three threads do by themselves inside the library.              *)
CreatorStep(c) == rlct_clone(c) \/ tid_write(c) \/ sync_lock(c) \/ insert(c)
ThreadStep(c) == shim_tid(c) \/ shim_unlock(c) \/ exit_dealloc(c) \/ post(c) \/ exit_thread(c)
JoinerStep(c) == wait(c) \/ join_dealloc(c)

Next ==
  \E c \in Child :
    \/ \E attr \in BOOLEAN : create(c, attr)
    \/ CreatorStep(c) \/ ThreadStep(c) \/ JoinerStep(c)
    \/ exit_current_thread(c) \/ join(c) \/ spurious(c) \/ detach(c)

Spec == Init /\ [][Next]_vars

-----------------------------------------------------------------------------
(* Properties                                                               *)

(* The mutexes in create's frame are used by the new thread only while     *)
(* create has not returned, and it holds the frame until the thread has    *)
(* unlocked the second one.                                                *)
FrameOutlivesUse ==
  \A c \in Child : child[c] \in {"tid", "unlock"} => creator[c] \in {"guard", "lock"}

(* A thread has a stack until exit_thread, and no stack stays mapped for a *)
(* thread that was never created or is gone, whichever step of create      *)
(* failed.                                                                 *)
StackLifetime ==
  \A c \in Child : c \in stack <=> creator[c] = "clone" \/ child[c] \notin {"unborn", "gone"}

(* join never reads a return value that has not been written.              *)
JoinReadsValue == \A c \in Child : joiner[c] # "uninit"

(* A thread that was joined is no longer in the table, and a joinable one  *)
(* whose create has returned is in it until then.                          *)
JoinableInTable ==
  \A c \in Child :
    creator[c] = "ok" /\ ~detached[c] => (c \in table <=> joiner[c] # "joined")

(* Where a join is awaited, of a thread that has returned from its entry   *)
(* point, and where it has returned.                                       *)
Awaited(c) == joiner[c] = "load" /\ child[c] = "write"
Joined(c) == joiner[c] = "joined"
=============================================================================
