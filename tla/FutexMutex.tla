----------------------------- MODULE FutexMutex -----------------------------
(***************************************************************************)
(* The three-state futex mutex of relibc: sync/mutex.rs over               *)
(* wait_until_generic and the futex calls of sync/mod.rs.                  *)
(*                                                                         *)
(* Each atomic access to the lock word, and each futex system call, is one *)
(* step.  The 999 spinning attempts and the last attempt before the long   *)
(* wait are the same compare-exchange, and one that fails while spinning   *)
(* changes nothing, so both are the step "attempt".  compare_exchange_weak *)
(* does not fail spuriously on x86_64, the architecture of this system.    *)
(***************************************************************************)
EXTENDS Naturals, Futex

UNLOCKED == 0
LOCKED == 1
WAITING == 2

VARIABLE word   \* the atomic of AtomicLock

vars == <<word, pc, asleep>>

Label == {"idle", "attempt", "mark_long", "futex_wait", "sleep", "critical", "futex_wake"}

TypeOK ==
  /\ word \in {UNLOCKED, LOCKED, WAITING}
  /\ pc \in [Thread -> Label]
  /\ asleep \subseteq Thread

Init ==
  /\ word = UNLOCKED
  /\ pc = [t \in Thread |-> "idle"]
  /\ asleep = {}

-----------------------------------------------------------------------------
(* manual_lock enters wait_until_generic.                                   *)
lock(t) ==
  /\ pc[t] = "idle"
  /\ Goto(t, "attempt")
  /\ UNCHANGED <<word, asleep>>

(* manual_try_lock: one compare-exchange, which may fail.                   *)
try_lock(t) ==
  /\ pc[t] = "idle"
  /\ word = UNLOCKED
  /\ word' = LOCKED
  /\ Goto(t, "critical")
  /\ UNCHANGED asleep

(* Mutant: a word that asks for a wake is taken for a free one.             *)
attempt_waiting(t) ==
  /\ pc[t] = "attempt"
  /\ \/ word # LOCKED /\ word' = LOCKED /\ Goto(t, "critical")
     \/ word = LOCKED /\ word' = word /\ Goto(t, "mark_long")
  /\ UNCHANGED asleep

(* The closure attempt: Desired, Waiting, or Other.                         *)
attempt(t) ==
  /\ pc[t] = "attempt"
  /\ \/ word = UNLOCKED /\ word' = LOCKED /\ Goto(t, "critical")
     \/ word = WAITING /\ word' = word /\ Goto(t, "futex_wait")
     \/ word = LOCKED /\ word' = word /\ Goto(t, "mark_long")
  /\ UNCHANGED asleep

(* Mutant: the word is overwritten instead of compared and exchanged.       *)
mark_long_store(t) ==
  /\ pc[t] = "mark_long"
  /\ word' = WAITING
  /\ Goto(t, "futex_wait")
  /\ UNCHANGED asleep

(* The closure mark_long: only UNLOCKED counts as Desired, and has attempt  *)
(* tried again at once.                                                     *)
mark_long(t) ==
  /\ pc[t] = "mark_long"
  /\ \/ word = LOCKED /\ word' = WAITING /\ Goto(t, "futex_wait")
     \/ word = UNLOCKED /\ word' = word /\ Goto(t, "attempt")
     \/ word = WAITING /\ word' = word /\ Goto(t, "futex_wait")
  /\ UNCHANGED asleep

(* manual_unlock: the swap, and a wake of all only if somebody announced a  *)
(* wait.                                                                    *)
unlock(t) ==
  /\ pc[t] = "critical"
  /\ word' = UNLOCKED
  /\ Goto(t, IF word = WAITING THEN "futex_wake" ELSE "idle")
  /\ UNCHANGED asleep

(* The steps a thread inside lock or unlock goes on to take.                *)
Step(t) ==
  \/ attempt(t) \/ mark_long(t) \/ unlock(t)
  \/ /\ \/ futex_wait(t, word = WAITING, "attempt")
        \/ wait_returns(t, "attempt")
        \/ futex_wake(t, "idle")
     /\ UNCHANGED word

Next ==
  \E t \in Thread :
    lock(t) \/ try_lock(t) \/ Step(t) \/ (spurious(t) /\ UNCHANGED word)

Spec == Init /\ [][Next]_vars

-----------------------------------------------------------------------------
(* Properties                                                               *)

(* Two threads never hold a MutexGuard of the same mutex, whatever the     *)
(* interleaving of swaps, announcements and sleeps.                        *)
MutualExclusion ==
  \A t, u \in Thread : pc[t] = "critical" /\ pc[u] = "critical" => t = u

(* No wake-up is lost: while a thread sleeps in futex_wait, the word still *)
(* asks the holder for a wake, or a thread is about to make the call.      *)
NoLostWakeup ==
  asleep # {} => word = WAITING \/ \E t \in Thread : pc[t] = "futex_wake"
=============================================================================
