------------------------------ MODULE RlctMutex ------------------------------
(***************************************************************************)
(* pthread_mutex_t of relibc (relibc/src/sync/pthread_mutex.rs): normal,   *)
(* error-checking and recursive mutexes, robust or not, with timed locks.  *)
(* A step is one compare-exchange or store of the word with the work on    *)
(* recursive_count the owner does under it, or one futex call.             *)
(*                                                                         *)
(* POSIX leaves undefined what a program may get from unlocking a normal   *)
(* mutex it does not own, and relocking one waits for ever: the programs   *)
(* modelled here do neither.  They may do both with the other types.       *)
(***************************************************************************)
EXTENDS Naturals, Futex

CONSTANTS
  STATE_UNLOCKED,   \* the word of a free mutex; a taken one holds the owner's id
  MaxCount          \* RECURSIVE_COUNT_MAX_INCLUSIVE

VARIABLES
  ty,        \* the mutex type of the attributes
  robust,    \* its robustness
  inner,     \* the lock word
  recursive_count,
  seen,      \* the word a thread passes to futex_wait
  deadline,  \* whether the lock call of a thread has a deadline
  held       \* history: locks minus unlocks that succeeded, per thread

vars == <<ty, robust, inner, recursive_count, seen, deadline, held, pc, asleep>>
attrs == <<ty, robust>>

Ty == {"Normal", "Errck", "Recursive"}

TypeOK ==
  /\ ty \in Ty
  /\ robust \in BOOLEAN
  /\ inner \in Thread \cup {STATE_UNLOCKED}
  /\ recursive_count \in 0..MaxCount
  /\ seen \in [Thread -> Thread \cup {STATE_UNLOCKED}]
  /\ deadline \in [Thread -> BOOLEAN]
  /\ held \in [Thread -> Nat]
  /\ pc \in [Thread -> {"idle", "cas", "futex_wait", "sleep", "futex_wake"}]
  /\ asleep \subseteq Thread

Init ==
  /\ ty \in Ty
  /\ robust \in BOOLEAN
  /\ inner = STATE_UNLOCKED
  /\ recursive_count = 0
  /\ seen = [t \in Thread |-> STATE_UNLOCKED]
  /\ deadline = [t \in Thread |-> FALSE]
  /\ held = [t \in Thread |-> 0]
  /\ pc = [t \in Thread |-> "idle"]
  /\ asleep = {}

-----------------------------------------------------------------------------
(* increment_recursive_count, for recursive mutexes only.                   *)
CountIsMax == ty = "Recursive" /\ recursive_count = MaxCount
Counted == IF ty = "Recursive" THEN recursive_count + 1 ELSE recursive_count

(* The lock is taken, once more if it is recursive and already owned.       *)
Take(t) ==
  /\ inner' = t
  /\ recursive_count' = Counted
  /\ held' = [held EXCEPT ![t] = @ + 1]

Forget(t) == seen' = [seen EXCEPT ![t] = STATE_UNLOCKED]

Fail == UNCHANGED <<inner, recursive_count, held>>

lock(t, d) ==
  /\ pc[t] = "idle"
  /\ ty = "Normal" => held[t] = 0
  /\ deadline' = [deadline EXCEPT ![t] = d]
  /\ Goto(t, "cas")
  /\ Fail
  /\ UNCHANGED <<attrs, seen, asleep>>

(* Mutant: a recursive mutex is also entered by a thread that is not its    *)
(* owner.                                                                   *)
lock_inner_any(t) ==
  /\ pc[t] = "cas"
  /\ \/ /\ inner = STATE_UNLOCKED \/ ty = "Recursive"
        /\ ~CountIsMax
        /\ Take(t) /\ Goto(t, "idle") /\ Forget(t)
     \/ /\ inner = t /\ (ty = "Errck" \/ CountIsMax)
        /\ Fail /\ Goto(t, "idle") /\ Forget(t)
     \/ /\ inner \notin {STATE_UNLOCKED, t} /\ ty # "Recursive"
        /\ Fail /\ Goto(t, "futex_wait") /\ seen' = [seen EXCEPT ![t] = inner]
  /\ UNCHANGED <<attrs, deadline, asleep>>

(* One round of the loop of lock_inner.                                     *)
lock_inner(t) ==
  /\ pc[t] = "cas"
  /\ \/ /\ inner = STATE_UNLOCKED \/ (inner = t /\ ty = "Recursive" /\ ~CountIsMax)
        /\ Take(t) /\ Goto(t, "idle") /\ Forget(t)
     \/ /\ inner = t /\ (ty = "Errck" \/ CountIsMax)
        /\ Fail /\ Goto(t, "idle") /\ Forget(t)
     \/ /\ inner \notin {STATE_UNLOCKED, t}
        /\ Fail /\ Goto(t, "futex_wait") /\ seen' = [seen EXCEPT ![t] = inner]
  /\ UNCHANGED <<attrs, deadline, asleep>>

try_lock(t) ==
  /\ pc[t] = "idle"
  /\ inner = STATE_UNLOCKED \/ (inner = t /\ ty = "Recursive" /\ ~CountIsMax)
  /\ Take(t)
  /\ UNCHANGED <<attrs, seen, deadline, pc, asleep>>

(* Mutant: nobody is woken.                                                 *)
unlock_quiet(t) ==
  /\ pc[t] = "idle"
  /\ held[t] > 0
  /\ recursive_count' = IF ty = "Recursive" THEN recursive_count - 1 ELSE recursive_count
  /\ inner' = IF recursive_count' > 0 THEN inner ELSE STATE_UNLOCKED
  /\ held' = [held EXCEPT ![t] = @ - 1]
  /\ UNCHANGED <<attrs, pc, seen, deadline, asleep>>

(* unlock: EPERM, one level less, or the store and then the wake.           *)
unlock(t) ==
  LET checked == robust \/ ty \in {"Recursive", "Errck"}
      next == recursive_count - 1
  IN  /\ pc[t] = "idle"
      /\ ~checked => held[t] > 0
      /\ \/ checked /\ inner # t /\ Fail /\ UNCHANGED pc
         \/ /\ checked => inner = t
            /\ held' = [held EXCEPT ![t] = @ - 1]
            /\ recursive_count' = IF ty = "Recursive" THEN next ELSE recursive_count
            /\ \/ ty = "Recursive" /\ next > 0 /\ UNCHANGED <<inner, pc>>
               \/ /\ ~(ty = "Recursive" /\ next > 0)
                  /\ inner' = STATE_UNLOCKED
                  /\ Goto(t, "futex_wake")
      /\ UNCHANGED <<attrs, seen, deadline, asleep>>

Waiting(t) ==
  /\ \/ futex_wait(t, inner = seen[t], "cas")
     \/ wait_returns(t, "cas")
     \/ futex_wake(t, "idle")
  /\ UNCHANGED <<attrs, inner, recursive_count, seen, deadline, held>>

(* ETIMEDOUT, for a call with a deadline; or a spurious wake-up.            *)
Disturbed(t) ==
  /\ \/ deadline[t] /\ timed_out(t, "idle")
     \/ spurious(t)
  /\ UNCHANGED <<attrs, inner, recursive_count, seen, deadline, held>>

Next ==
  \E t \in Thread :
    \/ \E d \in BOOLEAN : lock(t, d)
    \/ lock_inner(t) \/ try_lock(t) \/ unlock(t) \/ Waiting(t) \/ Disturbed(t)

Spec == Init /\ [][Next]_vars

-----------------------------------------------------------------------------
(* Properties                                                               *)

(* The word names the one thread that has locked the mutex more often than *)
(* it unlocked it, and recursive_count says how much more often: neither   *)
(* an unlock of a foreign mutex, a timed-out lock nor the limit of the     *)
(* count makes them disagree.                                              *)
OwnerAndDepth ==
  /\ \A t \in Thread : held[t] > 0 <=> inner = t
  /\ ty = "Recursive" /\ inner # STATE_UNLOCKED => recursive_count = held[inner]
  /\ inner = STATE_UNLOCKED => recursive_count = 0

(* No wake-up is lost although the word has no waiting bit: a thread       *)
(* sleeps only as long as the owner it saw keeps the mutex, or a thread    *)
(* that stored STATE_UNLOCKED has still to make its futex_wake.            *)
NoLostWakeup ==
  \A t \in asleep : inner = seen[t] \/ \E u \in Thread : pc[u] = "futex_wake"
=============================================================================
