----------------------------- MODULE CondClients -----------------------------
(***************************************************************************)
(* Programs that use a condition variable the way it is meant to be used:  *)
(* a consumer waits in a loop until there is an item, a producer adds an   *)
(* item under the mutex and signals, either before or after it unlocks the *)
(* mutex, as POSIX lets it choose.                                         *)
(***************************************************************************)
EXTENDS Cond

CONSTANTS
  Consumer, Producer,   \* the threads
  SignalLocked,         \* producers signal before they unlock the mutex
  MaxItems              \* bound: items the producers add together

VARIABLES
  items,   \* the predicate: how many items there are
  added    \* how many items the producers have added

vars == <<items, added, condVars>>

TypeOK ==
  /\ CondTypeOK
  /\ pc \in [Thread -> {"outside", "test"} \cup CondLabel]
  /\ items \in Nat
  /\ added \in 0..MaxItems

Init ==
  /\ CondInit
  /\ pc = [t \in Thread |-> "outside"]
  /\ items = 0
  /\ added = 0

-----------------------------------------------------------------------------
(* The consumer locks the mutex; with the mutex it takes an item and        *)
(* unlocks, or waits.                                                       *)
Enter(c) ==
  /\ pc[c] = "outside"
  /\ owner = Nobody
  /\ owner' = c
  /\ Goto(c, "test")
  /\ UNCHANGED <<items, added, cur, prev, loaded, asleep>>

Test(c) ==
  /\ pc[c] = "test"
  /\ \/ items > 0 /\ items' = items - 1 /\ owner' = Nobody /\ Goto(c, "outside")
     \/ items = 0 /\ Goto(c, "wait_load") /\ UNCHANGED <<items, owner>>
  /\ UNCHANGED <<added, cur, prev, loaded, asleep>>

Add(p) ==
  /\ pc[p] = "outside"
  /\ owner = Nobody
  /\ added < MaxItems
  /\ items' = items + 1
  /\ added' = added + 1
  /\ owner' = IF SignalLocked THEN p ELSE Nobody
  /\ Goto(p, "wake_load")
  /\ UNCHANGED <<cur, prev, loaded, asleep>>

Consume(c) ==
  Enter(c) \/ Test(c) \/ (wait_step(c, "test") /\ UNCHANGED <<items, added>>)

Produce(p) == Add(p) \/ (wake_step(p, "outside") /\ UNCHANGED <<items, added>>)

Next ==
  \/ \E c \in Consumer : Consume(c) \/ (cond_spurious(c) /\ UNCHANGED <<items, added>>)
  \/ \E p \in Producer : Produce(p)

Spec == Init /\ [][Next]_vars

-----------------------------------------------------------------------------
(* Properties                                                               *)

(* No signal is lost: when a consumer sleeps although there is an item,    *)
(* the producer of an item has still to make its futex_wake.               *)
NoLostSignal ==
  asleep # {} /\ items > 0 => \E p \in Producer : pc[p] # "outside"

(* Every item is added and taken: nobody waits for a wake-up that was made *)
(* before, nor for a mutex that wait has not given back.                   *)
AllTaken == items = 0 /\ added = MaxItems
=============================================================================
