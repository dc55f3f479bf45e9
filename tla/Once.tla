-------------------------------- MODULE Once --------------------------------
(***************************************************************************)
(* One-time initialisation of relibc: Once::call_once (sync/once.rs) over  *)
(* wait_until_generic (sync/mod.rs).  A step is one access to the status   *)
(* word, the write of the data, or one futex call; attempts that fail      *)
(* while spinning change nothing and are not distinguished.                *)
(***************************************************************************)
EXTENDS Naturals, Futex

UNINITIALIZED == 0
INITIALIZING == 1
WAITING == 2
INITIALIZED == 3

VARIABLES
  status,  \* Once::status
  data     \* how often the constructor has written Once::data

vars == <<status, data, pc, asleep>>

Label == {"start", "construct", "publish", "futex_wake", "attempt", "mark_long",
          "futex_wait", "sleep", "done"}

TypeOK ==
  /\ status \in {UNINITIALIZED, INITIALIZING, WAITING, INITIALIZED}
  /\ data \in Nat
  /\ pc \in [Thread -> Label]
  /\ asleep \subseteq Thread

Init ==
  /\ status = UNINITIALIZED
  /\ data = 0
  /\ pc = [t \in Thread |-> "start"]
  /\ asleep = {}

-----------------------------------------------------------------------------
(* Mutant: the status is loaded and compared, and not exchanged.            *)
call_once_load(t) ==
  /\ pc[t] = "start"
  /\ \/ status = UNINITIALIZED /\ status' = status /\ Goto(t, "construct")
     \/ status \in {INITIALIZING, WAITING} /\ status' = status /\ Goto(t, "attempt")
     \/ status = INITIALIZED /\ status' = status /\ Goto(t, "done")
  /\ UNCHANGED <<data, asleep>>

(* Mutant: a call that finds the constructor running returns at once.       *)
call_once_eager(t) ==
  /\ pc[t] = "start"
  /\ \/ status = UNINITIALIZED /\ status' = INITIALIZING /\ Goto(t, "construct")
     \/ status # UNINITIALIZED /\ status' = status /\ Goto(t, "done")
  /\ UNCHANGED <<data, asleep>>

(* The compare-exchange at the head of call_once.                           *)
call_once(t) ==
  /\ pc[t] = "start"
  /\ \/ status = UNINITIALIZED /\ status' = INITIALIZING /\ Goto(t, "construct")
     \/ status \in {INITIALIZING, WAITING} /\ status' = status /\ Goto(t, "attempt")
     \/ status = INITIALIZED /\ status' = status /\ Goto(t, "done")
  /\ UNCHANGED <<data, asleep>>

construct(t) ==
  /\ pc[t] = "construct"
  /\ data' = data + 1
  /\ Goto(t, "publish")
  /\ UNCHANGED <<status, asleep>>

(* Mutant: the waiters are woken only if none was announced.                *)
publish_inverted(t) ==
  /\ pc[t] = "publish"
  /\ status' = INITIALIZED
  /\ Goto(t, IF status = WAITING THEN "done" ELSE "futex_wake")
  /\ UNCHANGED <<data, asleep>>

(* The swap to INITIALIZED.                                                 *)
publish(t) ==
  /\ pc[t] = "publish"
  /\ status' = INITIALIZED
  /\ Goto(t, IF status = WAITING THEN "futex_wake" ELSE "done")
  /\ UNCHANGED <<data, asleep>>

(* The two closures given to wait_until_generic.                            *)
attempt(t) ==
  /\ pc[t] = "attempt"
  /\ \/ status = INITIALIZED /\ Goto(t, "done")
     \/ status = WAITING /\ Goto(t, "futex_wait")
     \/ status \notin {INITIALIZED, WAITING} /\ Goto(t, "mark_long")
  /\ UNCHANGED <<status, data, asleep>>

mark_long(t) ==
  /\ pc[t] = "mark_long"
  /\ \/ status = INITIALIZING /\ status' = WAITING /\ Goto(t, "futex_wait")
     \/ status = INITIALIZED /\ status' = status /\ Goto(t, "attempt")
     \/ status = WAITING /\ status' = status /\ Goto(t, "futex_wait")
  /\ UNCHANGED <<data, asleep>>

Step(t) ==
  \/ call_once(t) \/ construct(t) \/ publish(t) \/ attempt(t) \/ mark_long(t)
  \/ /\ \/ futex_wait(t, status = WAITING, "attempt")
        \/ wait_returns(t, "attempt")
        \/ futex_wake(t, "done")
     /\ UNCHANGED <<status, data>>

Next ==
  \E t \in Thread : Step(t) \/ (spurious(t) /\ UNCHANGED <<status, data>>)

Spec == Init /\ [][Next]_vars

-----------------------------------------------------------------------------
(* Properties                                                               *)

(* The constructor passed to call_once runs once, however many threads     *)
(* arrive before it is done.                                               *)
ConstructedOnce == data <= 1

(* call_once returns a reference to data only when the data is there.      *)
ReturnsInitialized == \A t \in Thread : pc[t] = "done" => data = 1
=============================================================================
