-------------------------------- MODULE Cond --------------------------------
(***************************************************************************)
(* The condition variable of relibc (relibc/src/sync/cond.rs): two words,  *)
(* cur and prev, and a futex on cur.  The mutex that goes with it is taken *)
(* and left in one step each, which FutexMutex and RlctMutex justify.      *)
(* These are the steps of wait and of signal or broadcast (which are the   *)
(* same); the modules that use them add the programs.                      *)
(***************************************************************************)
EXTENDS Naturals, Futex

CONSTANTS
  Nobody,   \* the owner of a free mutex
  Word      \* the modulus of the words, 2^32

VARIABLES
  cur, prev,   \* Cond::cur and Cond::prev
  owner,       \* who holds the mutex
  loaded       \* the word each thread loaded last: current of wait, prev of wake

condVars == <<cur, prev, owner, loaded, pc, asleep>>

CondLabel == {"wait_load", "wait_store", "wait_unlock", "futex_wait", "sleep", "relock",
              "wake_load", "wake_store", "futex_wake"}

CondTypeOK ==
  /\ cur \in 0..(Word - 1)
  /\ prev \in 0..(Word - 1)
  /\ owner \in Thread \cup {Nobody}
  /\ loaded \in [Thread -> 0..(Word - 1)]
  /\ asleep \subseteq Thread

CondInit ==
  /\ cur = 0
  /\ prev = 0
  /\ owner = Nobody
  /\ loaded = [t \in Thread |-> 0]
  /\ asleep = {}

-----------------------------------------------------------------------------
(* wait_inner_generic, entered with the mutex held.                         *)
wait_load(t) ==
  /\ pc[t] = "wait_load"
  /\ loaded' = [loaded EXCEPT ![t] = cur]
  /\ Goto(t, "wait_store")
  /\ UNCHANGED <<cur, prev, owner, asleep>>

wait_store(t) ==
  /\ pc[t] = "wait_store"
  /\ prev' = loaded[t]
  /\ Goto(t, "wait_unlock")
  /\ UNCHANGED <<cur, owner, loaded, asleep>>

(* Mutant: wait keeps the mutex while it sleeps.                            *)
wait_unlock_not(t) ==
  /\ pc[t] = "wait_unlock"
  /\ Goto(t, "futex_wait")
  /\ UNCHANGED <<cur, prev, owner, loaded, asleep>>

wait_unlock(t) ==
  /\ pc[t] = "wait_unlock"
  /\ owner' = Nobody
  /\ Goto(t, "futex_wait")
  /\ UNCHANGED <<cur, prev, loaded, asleep>>

wait_sleep(t) ==
  /\ futex_wait(t, cur = loaded[t], "relock") \/ wait_returns(t, "relock")
  /\ UNCHANGED <<cur, prev, owner, loaded>>

(* The mutex is locked again and wait returns to LABEL.                     *)
relock(t, label) ==
  /\ pc[t] = "relock"
  /\ owner = Nobody
  /\ owner' = t
  /\ Goto(t, label)
  /\ UNCHANGED <<cur, prev, loaded, asleep>>

wait_step(t, label) ==
  wait_load(t) \/ wait_store(t) \/ wait_unlock(t) \/ wait_sleep(t) \/ relock(t, label)

(* wake: a load of prev, a store of cur, and the system call.               *)
wake_load(t) ==
  /\ pc[t] = "wake_load"
  /\ loaded' = [loaded EXCEPT ![t] = prev]
  /\ Goto(t, "wake_store")
  /\ UNCHANGED <<cur, prev, owner, asleep>>

(* Mutant: the word is not advanced.                                        *)
wake_store_same(t) ==
  /\ pc[t] = "wake_store"
  /\ cur' = loaded[t]
  /\ Goto(t, "futex_wake")
  /\ UNCHANGED <<prev, owner, loaded, asleep>>

wake_store(t) ==
  /\ pc[t] = "wake_store"
  /\ cur' = (loaded[t] + 1) % Word
  /\ Goto(t, "futex_wake")
  /\ UNCHANGED <<prev, owner, loaded, asleep>>

(* After the call the thread drops the mutex if it holds it.                *)
wake_call(t, label) ==
  /\ futex_wake(t, label)
  /\ owner' = IF owner = t THEN Nobody ELSE owner
  /\ UNCHANGED <<cur, prev, loaded>>

wake_step(t, label) == wake_load(t) \/ wake_store(t) \/ wake_call(t, label)

cond_spurious(t) == spurious(t) /\ UNCHANGED <<cur, prev, owner, loaded>>
=============================================================================
