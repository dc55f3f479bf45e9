------------------------------- MODULE RunQueue -------------------------------
(***************************************************************************)
(* What the scheduler promises, whatever the order it serves threads in:   *)
(* every CPU runs one thread, no thread runs on two CPUs or is runnable    *)
(* while it runs, and a thread that has left never comes back.             *)
(***************************************************************************)
EXTENDS Functions

CONSTANTS Cpu, Thread

VARIABLES
  running,   \* the thread each CPU runs
  runnable,  \* threads that wait for a CPU
  admitted   \* threads that were ever handed to the scheduler

rqVars == <<running, runnable, admitted>>

Init ==
  /\ running \in [Cpu -> Thread]
  /\ IsInjective(running)
  /\ runnable \subseteq Thread \ Range(running)
  /\ admitted = runnable \cup Range(running)

Admit(t) ==
  /\ t \notin admitted
  /\ admitted' = admitted \cup {t}
  /\ runnable' = runnable \cup {t}
  /\ UNCHANGED running

Withdraw(t) ==
  /\ t \in runnable
  /\ runnable' = runnable \ {t}
  /\ UNCHANGED <<running, admitted>>

(* CPU c turns to a runnable thread; the one it ran waits again or is gone. *)
Switch(c, t) ==
  /\ t \in runnable
  /\ running' = [running EXCEPT ![c] = t]
  /\ \/ runnable' = runnable \ {t}
     \/ runnable' = (runnable \ {t}) \cup {running[c]}
  /\ UNCHANGED admitted

Next ==
  \E t \in Thread : Admit(t) \/ Withdraw(t) \/ \E c \in Cpu : Switch(c, t)

Spec == Init /\ [][Next]_rqVars
===============================================================================
