------------------------------ MODULE Semaphore ------------------------------
(***************************************************************************)
(* sem_t of relibc (relibc/src/sync/semaphore.rs): post, try_wait and wait *)
(* with and without a timeout, one atomic access per step.                 *)
(***************************************************************************)
EXTENDS Naturals, Futex

CONSTANTS
  Value,      \* the value sem_init gives
  MaxPosts    \* bound: how often post is called

VARIABLES
  count,      \* the word
  value,      \* what each thread loaded in try_wait
  posted,     \* history: how many units have been posted
  taken,      \* history: the units each thread has taken in its call
  acquired,   \* history: the units all threads have taken
  result      \* history: how the last wait of each thread ended

vars == <<count, value, posted, taken, acquired, result, pc, asleep>>

TypeOK ==
  /\ count \in 0..(Value + MaxPosts)
  /\ value \in [Thread -> 0..(Value + MaxPosts)]
  /\ posted \in 0..MaxPosts
  /\ taken \in [Thread -> 0..(Value + MaxPosts)]
  /\ acquired \in 0..(Value + MaxPosts)
  /\ result \in [Thread -> {"none", "ok", "timeout"}]
  /\ pc \in [Thread -> {"idle", "load", "cas", "timeout", "futex_wait", "sleep", "done",
                        "futex_wake"}]
  /\ asleep \subseteq Thread

Init ==
  /\ count = Value
  /\ value = [t \in Thread |-> 0]
  /\ posted = 0
  /\ taken = [t \in Thread |-> 0]
  /\ acquired = 0
  /\ result = [t \in Thread |-> "none"]
  /\ pc = [t \in Thread |-> "idle"]
  /\ asleep = {}

-----------------------------------------------------------------------------
Call(t) ==
  /\ pc[t] = "idle"
  /\ Goto(t, "load")
  /\ UNCHANGED <<count, value, posted, taken, acquired, result, asleep>>

(* post(1), by a thread that has not waited yet; every sleeper is woken.    *)
post(t) ==
  /\ pc[t] = "idle"
  /\ posted < MaxPosts
  /\ count' = count + 1
  /\ posted' = posted + 1
  /\ Goto(t, "futex_wake")
  /\ UNCHANGED <<value, taken, acquired, result, asleep>>

(* The loop of try_wait: it returns 0 for no unit, which wait takes for Ok. *)
load(t) ==
  /\ pc[t] = "load"
  /\ value' = [value EXCEPT ![t] = count]
  /\ \/ count > 0 /\ Goto(t, "cas") /\ UNCHANGED result
     \/ count = 0 /\ Goto(t, "done") /\ result' = [result EXCEPT ![t] = "ok"]
  /\ UNCHANGED <<count, posted, taken, acquired, asleep>>

Took(t) == taken' = [taken EXCEPT ![t] = @ + 1] /\ acquired' = acquired + 1

(* Mutant: a store in place of the compare-exchange.                        *)
cas_store(t) ==
  /\ pc[t] = "cas"
  /\ count' = value[t] - 1 /\ Took(t) /\ Goto(t, "timeout")
  /\ UNCHANGED <<value, posted, result, asleep>>

cas(t) ==
  /\ pc[t] = "cas"
  /\ \/ /\ count = value[t]
        /\ count' = value[t] - 1 /\ Took(t) /\ Goto(t, "timeout")
     \/ count # value[t] /\ Goto(t, "load") /\ UNCHANGED <<count, taken, acquired>>
  /\ UNCHANGED <<value, posted, result, asleep>>

(* wait after try_wait took a unit: an Err if there is a timeout and it has *)
(* passed, otherwise the futex is used to wait for the next change.         *)
wait_more(t) ==
  /\ pc[t] = "timeout"
  /\ \/ Goto(t, "done") /\ result' = [result EXCEPT ![t] = "timeout"]
     \/ Goto(t, "futex_wait") /\ UNCHANGED result
  /\ UNCHANGED <<count, value, posted, taken, acquired, asleep>>

Sleep(t) ==
  /\ \/ futex_wait(t, count = value[t], "load") \/ wait_returns(t, "load")
     \/ spurious(t) \/ futex_wake(t, "idle")
  /\ UNCHANGED <<count, value, posted, taken, acquired, result>>

Next == \E t \in Thread : Call(t) \/ post(t) \/ load(t) \/ cas(t) \/ wait_more(t) \/ Sleep(t)

Spec == Init /\ [][Next]_vars

-----------------------------------------------------------------------------
(* Properties                                                               *)

(* However post and wait interleave, every unit is in the count or was     *)
(* taken by one thread: the loop over load and compare-exchange loses no   *)
(* unit and takes none twice.                                              *)
NoUnitLost == count + acquired = Value + posted

(* A wait that returns Ok has acquired one unit, as the comment "Acquired" *)
(* in try_wait says of the result that is not zero.                        *)
OkMeansAcquired == \A t \in Thread : result[t] = "ok" => taken[t] = 1
=============================================================================
