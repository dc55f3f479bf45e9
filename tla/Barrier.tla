------------------------------- MODULE Barrier -------------------------------
(***************************************************************************)
(* pthread_barrier_t of relibc (relibc/src/sync/barrier.rs) over the       *)
(* condition variable of Cond: exactly original_count threads use it, each *)
(* again and again.                                                        *)
(***************************************************************************)
EXTENDS Cond, FiniteSets

CONSTANT MaxRounds   \* bound: how often each thread calls wait

VARIABLES
  count, gen_id,   \* Inner, which the mutex protects
  my_gen,          \* the local gen_id of each thread
  entered,         \* history: how often each thread has called wait
  left,            \* history: how often wait has returned to each thread
  serial           \* history: how often wait returned NotifiedAll

barrierVars == <<count, gen_id, my_gen, entered, left, serial>>
vars == <<barrierVars, condVars>>

original_count == Cardinality(Thread)

TypeOK ==
  /\ CondTypeOK
  /\ pc \in [Thread -> {"outside", "check"} \cup CondLabel]
  /\ count \in 0..(original_count - 1)
  /\ gen_id \in 0..(Word - 1)
  /\ my_gen \in [Thread -> 0..(Word - 1)]
  /\ entered \in [Thread -> 0..MaxRounds]
  /\ left \in [Thread -> 0..MaxRounds]
  /\ serial \in 0..MaxRounds

Init ==
  /\ CondInit
  /\ pc = [t \in Thread |-> "outside"]
  /\ count = 0
  /\ gen_id = 0
  /\ my_gen = [t \in Thread |-> 0]
  /\ entered = [t \in Thread |-> 0]
  /\ left = [t \in Thread |-> 0]
  /\ serial = 0

-----------------------------------------------------------------------------
(* Mutant: the count is not reset for the next generation.                  *)
wait_stale(t) ==
  /\ pc[t] = "outside"
  /\ owner = Nobody
  /\ entered[t] < MaxRounds
  /\ entered' = [entered EXCEPT ![t] = @ + 1]
  /\ my_gen' = [my_gen EXCEPT ![t] = gen_id]
  /\ owner' = t
  /\ \/ /\ count + 1 >= original_count
        /\ gen_id' = (gen_id + 1) % Word
        /\ count' = original_count - 1
        /\ Goto(t, "wake_load")
     \/ /\ count + 1 < original_count
        /\ count' = count + 1
        /\ Goto(t, "check")
        /\ UNCHANGED gen_id
  /\ UNCHANGED <<left, serial, cur, prev, loaded, asleep>>

(* Mutant: the generation of the last thread is not a new one.              *)
wait_same_gen(t) ==
  /\ pc[t] = "outside"
  /\ owner = Nobody
  /\ entered[t] < MaxRounds
  /\ entered' = [entered EXCEPT ![t] = @ + 1]
  /\ my_gen' = [my_gen EXCEPT ![t] = gen_id]
  /\ owner' = t
  /\ count' = (count + 1) % original_count
  /\ Goto(t, IF count + 1 = original_count THEN "wake_load" ELSE "check")
  /\ UNCHANGED <<gen_id, left, serial, cur, prev, loaded, asleep>>

(* wait: the last thread to arrive starts a new generation and broadcasts   *)
(* with the mutex held; the others wait for the generation to change.       *)
wait(t) ==
  /\ pc[t] = "outside"
  /\ owner = Nobody
  /\ entered[t] < MaxRounds
  /\ entered' = [entered EXCEPT ![t] = @ + 1]
  /\ my_gen' = [my_gen EXCEPT ![t] = gen_id]
  /\ owner' = t
  /\ \/ /\ count + 1 = original_count
        /\ gen_id' = (gen_id + 1) % Word
        /\ count' = 0
        /\ Goto(t, "wake_load")
     \/ /\ count + 1 # original_count
        /\ count' = count + 1
        /\ Goto(t, "check")
        /\ UNCHANGED gen_id
  /\ UNCHANGED <<left, serial, cur, prev, loaded, asleep>>

(* Mutant: one wake-up is taken for the end of the wait.                    *)
check_once(t) ==
  /\ pc[t] = "check"
  /\ \/ gen_id = my_gen[t] /\ count = 1 /\ Goto(t, "wait_load") /\ UNCHANGED <<owner, left>>
     \/ /\ gen_id # my_gen[t] \/ count # 1
        /\ owner' = Nobody
        /\ left' = [left EXCEPT ![t] = @ + 1]
        /\ Goto(t, "outside")
  /\ UNCHANGED <<count, gen_id, my_gen, entered, serial, cur, prev, loaded, asleep>>

(* The condition of the while loop; leaving it returns Waited.              *)
check(t) ==
  /\ pc[t] = "check"
  /\ \/ gen_id = my_gen[t] /\ Goto(t, "wait_load") /\ UNCHANGED <<owner, left>>
     \/ /\ gen_id # my_gen[t]
        /\ owner' = Nobody
        /\ left' = [left EXCEPT ![t] = @ + 1]
        /\ Goto(t, "outside")
  /\ UNCHANGED <<count, gen_id, my_gen, entered, serial, cur, prev, loaded, asleep>>

(* The last thread returns NotifiedAll after the broadcast.                 *)
notify(t) ==
  \/ (wake_load(t) \/ wake_store(t)) /\ UNCHANGED barrierVars
  \/ /\ wake_call(t, "outside")
     /\ left' = [left EXCEPT ![t] = @ + 1]
     /\ serial' = serial + 1
     /\ UNCHANGED <<count, gen_id, my_gen, entered>>

Step(t) == wait(t) \/ check(t) \/ notify(t) \/ (wait_step(t, "check") /\ UNCHANGED barrierVars)

Next == \E t \in Thread : Step(t) \/ (cond_spurious(t) /\ UNCHANGED barrierVars)

Spec == Init /\ [][Next]_vars

-----------------------------------------------------------------------------
(* Properties                                                               *)

(* No thread returns from its n-th wait before every thread has made its   *)
(* n-th call, although the generation counter wraps around.                *)
NobodyPassesAlone == \A t, u \in Thread : left[t] <= entered[u]

(* Each generation releases exactly one thread with NotifiedAll, the       *)
(* PTHREAD_BARRIER_SERIAL_THREAD of that round.                            *)
OneSerialThread ==
  (\A t \in Thread : left[t] = entered[t]) => \A t \in Thread : serial = left[t]

(* All threads leave every round: no broadcast is lost between the unlock  *)
(* and the futex_wait of a thread, whatever the words wrap to.             *)
AllLeft == \A t \in Thread : left[t] = MaxRounds
=============================================================================
