------------------------------- MODULE Rwlock -------------------------------
(***************************************************************************)
(* pthread_rwlock_t of relibc (relibc/src/sync/rwlock.rs).  The word holds *)
(* the count of readers, or EXCLUSIVE for a writer, and the WAITING_WR bit.*)
(* A step is one atomic access to the word or one futex call.  The loops   *)
(* ignore the result of futex_wait, so a deadline is a spurious wake-up.   *)
(* A thread takes the lock once at a time, so that the assertion on the    *)
(* maximum number of readers holds by the assumption below.                *)
(***************************************************************************)
EXTENDS Naturals, FiniteSets, Futex

CONSTANT EXCLUSIVE   \* COUNT_MASK, 2^31 - 1

VARIABLES
  count,      \* state & COUNT_MASK
  waiting,    \* whether state has the WAITING_WR bit
  op,         \* the function each thread is in, or holds the lock by
  seen        \* the word each thread compares with: actual, expected, cached

vars == <<count, waiting, op, seen, pc, asleep>>

State == [count |-> count, wr |-> waiting]
Writes(t) == op[t] \in {"write", "try_write"}

TypeOK ==
  /\ count \in 0..EXCLUSIVE
  /\ waiting \in BOOLEAN
  /\ op \in [Thread -> {"read", "write", "try_read", "try_write"}]
  /\ seen \in [Thread -> [count : 0..EXCLUSIVE, wr : BOOLEAN]]
  /\ pc \in [Thread -> {"idle", "load", "cas", "mark", "futex_wait", "sleep",
                        "held", "unlock_write", "unlock_read", "futex_wake"}]
  /\ asleep \subseteq Thread

Init ==
  /\ count = 0
  /\ waiting = FALSE
  /\ op = [t \in Thread |-> "read"]
  /\ seen = [t \in Thread |-> State]
  /\ pc = [t \in Thread |-> "idle"]
  /\ asleep = {}

(* The local variables of a function end with it.                           *)
Forget(t) == seen' = [seen EXCEPT ![t] = [count |-> 0, wr |-> FALSE]]

Acquired(t, c, w) ==
  /\ count' = c /\ waiting' = w
  /\ Forget(t)
  /\ op' = [op EXCEPT ![t] = IF Writes(t) THEN "write" ELSE "read"]
  /\ Goto(t, "held")

Returned(t) == op' = [op EXCEPT ![t] = "read"] /\ Goto(t, "idle")

-----------------------------------------------------------------------------
Call(t) ==
  /\ pc[t] = "idle"
  /\ \E f \in {"read", "write", "try_read", "try_write"} : op' = [op EXCEPT ![t] = f]
  /\ Goto(t, "load")
  /\ UNCHANGED <<count, waiting, seen, asleep>>

(* The load every acquiring function starts with.                           *)
load(t) ==
  /\ pc[t] = "load"
  /\ seen' = [seen EXCEPT ![t] = IF Writes(t) THEN [State EXCEPT !.count = 0] ELSE State]
  /\ Goto(t, "cas")
  /\ UNCHANGED <<count, waiting, op, asleep>>

(* The compare-exchange of t failed and found the present word.             *)
Failed(t, next) ==
  /\ seen' = [seen EXCEPT ![t] = State]
  /\ Goto(t, next)
  /\ UNCHANGED <<count, waiting, op>>

(* A try function returns Err.                                              *)
Refused(t) == Forget(t) /\ Returned(t) /\ UNCHANGED <<count, waiting>>

(* Mutant: the writer's compare-exchange looks at the waiting bit only.     *)
acquire_write_shared(t) ==
  LET free == count # EXCLUSIVE /\ waiting = seen[t].wr
  IN  /\ pc[t] = "cas" /\ Writes(t)
      /\ \/ free /\ Acquired(t, EXCLUSIVE, FALSE)
         \/ ~free /\ op[t] = "write" /\ Failed(t, "mark")
         \/ ~free /\ op[t] = "try_write" /\ count > 0 /\ Refused(t)
         \/ ~free /\ op[t] = "try_write" /\ count = 0 /\ Failed(t, "cas")
      /\ UNCHANGED asleep

(* acquire_write_lock and try_acquire_write_lock: the word must have no     *)
(* readers, no writer and the waiting bit it had before.                    *)
acquire_write(t) ==
  LET free == count = 0 /\ waiting = seen[t].wr
  IN  /\ pc[t] = "cas" /\ Writes(t)
      /\ \/ free /\ Acquired(t, EXCLUSIVE, FALSE)
         \/ ~free /\ op[t] = "write" /\ Failed(t, "mark")
         \/ ~free /\ op[t] = "try_write" /\ count > 0 /\ Refused(t)
         \/ ~free /\ op[t] = "try_write" /\ count = 0 /\ Failed(t, "cas")
      /\ UNCHANGED asleep

(* Mutant: a writer that found no reader and no writer sleeps all the same. *)
mark_waiting_sleeps(t) ==
  LET shared == seen[t].count # EXCLUSIVE
  IN  /\ pc[t] = "mark"
      /\ waiting' = (waiting \/ shared)
      /\ seen' = [seen EXCEPT ![t].wr = @ \/ shared]
      /\ Goto(t, "futex_wait")
      /\ UNCHANGED <<count, op, asleep>>

(* A writer that failed sets the waiting bit unless it saw a writer, and    *)
(* sleeps only if it saw the lock taken.                                    *)
mark_waiting(t) ==
  LET shared == seen[t].count # EXCLUSIVE
  IN  /\ pc[t] = "mark"
      /\ waiting' = (waiting \/ shared)
      /\ seen' = [seen EXCEPT ![t].wr = @ \/ shared]
      /\ Goto(t, IF seen[t].count > 0 THEN "futex_wait" ELSE "cas")
      /\ UNCHANGED <<count, op, asleep>>

(* try_acquire_read_lock, and acquire_read_lock around it: one reader more  *)
(* than in the cached word, EXCLUSIVE counting as none.                     *)
acquire_read(t) ==
  LET old == IF seen[t].count = EXCLUSIVE THEN 0 ELSE seen[t].count
      same == count = old /\ waiting = seen[t].wr
  IN  /\ pc[t] = "cas" /\ ~Writes(t)
      /\ \/ same /\ Acquired(t, old + 1, waiting)
         \/ ~same /\ count # EXCLUSIVE /\ Failed(t, "cas")
         \/ ~same /\ count = EXCLUSIVE /\ op[t] = "read" /\ Failed(t, "futex_wait")
         \/ ~same /\ count = EXCLUSIVE /\ op[t] = "try_read" /\ Refused(t)
      /\ UNCHANGED asleep

(* unlock loads the word, and takes the lock for a write lock by it.        *)
unlock(t) ==
  /\ pc[t] = "held"
  /\ Goto(t, IF count = EXCLUSIVE THEN "unlock_write" ELSE "unlock_read")
  /\ UNCHANGED <<count, waiting, op, seen, asleep>>

(* The writer's store discards the waiting bit.                             *)
unlock_write(t) ==
  /\ pc[t] = "unlock_write"
  /\ count' = 0 /\ waiting' = FALSE
  /\ op' = [op EXCEPT ![t] = "read"]
  /\ Goto(t, "futex_wake")
  /\ UNCHANGED <<seen, asleep>>

unlock_read(t) ==
  /\ pc[t] = "unlock_read"
  /\ count' = count - 1
  /\ Goto(t, IF count = 1 THEN "futex_wake" ELSE "idle")
  /\ UNCHANGED <<waiting, op, seen, asleep>>

Sleep(t) ==
  LET back == IF Writes(t) THEN "cas" ELSE "load"
  IN  /\ futex_wait(t, State = seen[t], back) \/ wait_returns(t, back) \/ futex_wake(t, "idle")
      /\ UNCHANGED <<count, waiting, op, seen>>

(* The steps of a thread that has called one of the functions.              *)
Step(t) ==
  \/ load(t) \/ acquire_write(t) \/ mark_waiting(t) \/ acquire_read(t)
  \/ unlock(t) \/ unlock_write(t) \/ unlock_read(t) \/ Sleep(t)

Spurious(t) == spurious(t) /\ UNCHANGED <<count, waiting, op, seen>>

Next == \E t \in Thread : Call(t) \/ Step(t) \/ Spurious(t)

Spec == Init /\ [][Next]_vars

-----------------------------------------------------------------------------
(* Properties                                                               *)

Holders == {t \in Thread : pc[t] \in {"held", "unlock_write", "unlock_read"}}

(* The word counts the readers exactly, a writer is alone, and unlock,     *)
(* which only looks at the word, releases the lock its caller has.         *)
ReadersOrOneWriter ==
  LET writers == {t \in Holders : Writes(t)}
  IN  /\ IF writers = {} THEN count = Cardinality(Holders)
         ELSE count = EXCLUSIVE /\ Cardinality(Holders) = 1
      /\ \A t \in Holders : pc[t] # "held" => (pc[t] = "unlock_write" <=> Writes(t))

(* Nobody sleeps on a lock that is free unless a futex_wake is on its way: *)
(* what the comment on the branch without futex_wait is about.             *)
NoLostWakeup ==
  asleep # {} => count > 0 \/ \E t \in Thread : pc[t] = "futex_wake"
=============================================================================
