-------------------------------- MODULE Futex --------------------------------
(***************************************************************************)
(* The futex system calls as relibc uses them (relibc/src/sync/mod.rs).    *)
(* A thread is at the label "futex_wait" when it is about to make the      *)
(* call, at "sleep" inside it, and at "futex_wake" when it is about to     *)
(* wake all sleepers.  The kernel compares the word and puts the caller to *)
(* sleep in one step; a sleeper may also wake spuriously.                  *)
(***************************************************************************)
CONSTANT Thread

VARIABLES
  pc,      \* where each thread is
  asleep   \* the threads the kernel has put to sleep on the futex

Goto(t, label) == pc' = [pc EXCEPT ![t] = label]

(* UNCHANGED_WORD tells whether the word still has the expected value: the  *)
(* result is Waited, or Stale, and the thread goes on at BACK.              *)
futex_wait(t, unchangedWord, back) ==
  /\ pc[t] = "futex_wait"
  /\ \/ unchangedWord /\ asleep' = asleep \cup {t} /\ Goto(t, "sleep")
     \/ ~unchangedWord /\ asleep' = asleep /\ Goto(t, back)

wait_returns(t, back) ==
  /\ pc[t] = "sleep"
  /\ t \notin asleep
  /\ Goto(t, back)
  /\ UNCHANGED asleep

(* The result TimedOut, when a deadline was given.                          *)
timed_out(t, label) ==
  /\ t \in asleep
  /\ asleep' = asleep \ {t}
  /\ Goto(t, label)

spurious(t) ==
  /\ t \in asleep
  /\ asleep' = asleep \ {t}
  /\ UNCHANGED pc

(* Mutant: only one sleeper is woken.                                       *)
futex_wake_one(t, next) ==
  /\ pc[t] = "futex_wake"
  /\ asleep' = IF asleep = {} THEN {} ELSE asleep \ {CHOOSE u \in asleep : TRUE}
  /\ Goto(t, next)

futex_wake(t, next) ==
  /\ pc[t] = "futex_wake"
  /\ asleep' = {}
  /\ Goto(t, next)
=============================================================================
