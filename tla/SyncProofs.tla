----------------------------- MODULE SyncProofs -----------------------------
(***************************************************************************)
(* The synchronisation primitives and the threads of relibc, and the boot  *)
(* of the processors, for every set of threads, every bound on what they   *)
(* do, every width of their words and every set of processors.             *)
(***************************************************************************)
EXTENDS MCSync, FiniteSetTheorems, NaturalLemmas, TLAPS

USE SMTT(30)   \* a leaf that names no prover has thirty seconds

-----------------------------------------------------------------------------
(* FutexMutex                                                              *)

(* The word of a mutex that is held is not UNLOCKED.                       *)
MutexInv ==
  /\ Mutex!TypeOK
  /\ Mutex!MutualExclusion
  /\ Mutex!NoLostWakeup
  /\ \A t \in Thread : pc[t] = "critical" => s1 # Mutex!UNLOCKED

(* A step of a thread that tries to get or gives back the mutex.           *)
LEMMA MutexStep ==
  ASSUME MutexInv, NEW t \in Thread,
         \/ Mutex!lock(t) \/ Mutex!try_lock(t) \/ Mutex!attempt(t) \/ Mutex!mark_long(t)
         \/ Mutex!unlock(t)
  PROVE  MutexInv'
<1> USE DEF MutexInv, Mutex!Goto, Mutex!UNLOCKED, Mutex!LOCKED, Mutex!WAITING
<1>1. /\ s1 \in {0, 1, 2} /\ pc \in [Thread -> Mutex!Label] /\ asleep \subseteq Thread
      /\ asleep' = asleep
  BY DEF Mutex!TypeOK, Mutex!lock, Mutex!try_lock, Mutex!attempt, Mutex!mark_long, Mutex!unlock
<1>2. PICK label \in Mutex!Label : pc' = [pc EXCEPT ![t] = label]
  BY DEF Mutex!lock, Mutex!try_lock, Mutex!attempt, Mutex!mark_long, Mutex!unlock, Mutex!Label
<1>3. pc'[t] = label /\ \A u \in Thread \ {t} : pc'[u] = pc[u]
  BY <1>1, <1>2
<1>4. s1' \in {0, 1, 2}
  BY <1>1 DEF Mutex!lock, Mutex!try_lock, Mutex!attempt, Mutex!mark_long, Mutex!unlock
<1>5. Mutex!TypeOK'
  BY <1>1, <1>2, <1>4 DEF Mutex!TypeOK
<1>6. \/ label # "critical" /\ s1' # 0 /\ pc[t] # "critical" /\ pc[t] # "futex_wake" /\ s1 # 0
         /\ (s1 = 2 => s1' = 2)
      \/ label # "critical" /\ s1' = s1 /\ pc[t] # "critical" /\ pc[t] # "futex_wake"
      \/ label = "critical" /\ s1 = 0 /\ s1' = 1 /\ pc[t] # "futex_wake"
      \/ pc[t] = "critical" /\ s1' = 0 /\ label = IF s1 = 2 THEN "futex_wake" ELSE "idle"
  BY <1>1, <1>2, <1>3 DEF Mutex!lock, Mutex!try_lock, Mutex!attempt, Mutex!mark_long, Mutex!unlock
<1>7. Mutex!MutualExclusion' /\ \A u \in Thread : pc'[u] = "critical" => s1' # 0
  BY <1>1, <1>3, <1>6 DEF Mutex!MutualExclusion
<1>8. Mutex!NoLostWakeup'
  BY <1>1, <1>3, <1>6 DEF Mutex!NoLostWakeup, Mutex!MutualExclusion
<1> QED BY <1>5, <1>7, <1>8

(* A step of a thread in the futex calls.                                  *)
LEMMA MutexFutexStep ==
  ASSUME MutexInv, NEW t \in Thread, s1' = s1,
         \/ Mutex!futex_wait(t, s1 = Mutex!WAITING, "attempt") \/ Mutex!wait_returns(t, "attempt")
         \/ Mutex!futex_wake(t, "idle") \/ Mutex!spurious(t)
  PROVE  MutexInv'
<1> USE DEF MutexInv, Mutex!Goto, Mutex!UNLOCKED, Mutex!LOCKED, Mutex!WAITING
<1>1. s1 \in {0, 1, 2} /\ pc \in [Thread -> Mutex!Label] /\ asleep \subseteq Thread
  BY DEF Mutex!TypeOK
<1>2. PICK label \in Mutex!Label \ {"critical", "futex_wake"} : pc' = pc \/ pc' = [pc EXCEPT ![t] = label]
  BY DEF Mutex!futex_wait, Mutex!wait_returns, Mutex!futex_wake, Mutex!spurious, Mutex!Label
<1>3. /\ pc'[t] = pc[t] \/ pc'[t] = label
      /\ \A u \in Thread \ {t} : pc'[u] = pc[u]
  BY <1>1, <1>2
<1>4. asleep' \subseteq Thread
  BY <1>1 DEF Mutex!futex_wait, Mutex!wait_returns, Mutex!futex_wake, Mutex!spurious
<1>5. Mutex!TypeOK'
  BY <1>1, <1>2, <1>4 DEF Mutex!TypeOK
<1>6. Mutex!MutualExclusion' /\ \A u \in Thread : pc'[u] = "critical" => s1' # 0
  BY <1>1, <1>3 DEF Mutex!MutualExclusion
<1>7. \/ asleep' = {}
      \/ asleep' \subseteq asleep /\ (pc[t] # "futex_wake" \/ pc' = pc)
      \/ s1 = 2
  BY DEF Mutex!futex_wait, Mutex!wait_returns, Mutex!futex_wake, Mutex!spurious
<1>8. Mutex!NoLostWakeup'
  BY <1>1, <1>3, <1>7 DEF Mutex!NoLostWakeup
<1> QED BY <1>5, <1>6, <1>8

(* Two threads never hold the mutex, and no wake-up is lost, for any       *)
(* number of threads that lock, try, spin, announce themselves, sleep,     *)
(* wake spuriously and unlock.                                             *)
THEOREM MutexIsSound == Spec => []MutexSound
<1> DEFINE Inv == kind = "mutex" => MutexInv
<1>1. Init => Inv
  BY DEF Init, MutexInv, Mutex!Init, Mutex!TypeOK, Mutex!MutualExclusion, Mutex!NoLostWakeup, Mutex!Label,
         Mutex!UNLOCKED
<1>2. Inv /\ [Next]_vars => Inv'
  <2> SUFFICES ASSUME Inv, [Next]_vars, kind' = "mutex" PROVE MutexInv'
    OBVIOUS
  <2>1. kind = "mutex" /\ MutexInv
    BY DEF Next, vars
  <2>2. CASE UNCHANGED vars
    BY <2>1, <2>2 DEF vars, MutexInv, Mutex!TypeOK, Mutex!MutualExclusion, Mutex!NoLostWakeup
  <2>3. CASE Mutex!Next
    BY <2>1, <2>3, MutexStep, MutexFutexStep DEF Mutex!Next, Mutex!Step
  <2> QED BY <2>1, <2>2, <2>3 DEF Next
<1>3. Inv => MutexSound
  BY DEF MutexInv, MutexSound
<1> HIDE DEF Inv
<1> QED BY <1>1, <1>2, <1>3, PTL DEF Spec

-----------------------------------------------------------------------------
(* Once                                                                    *)

(* One thread at most is between the compare-exchange that starts the      *)
(* construction and the swap that publishes it, and the status and the     *)
(* data follow it.                                                         *)
Builder(t) == pc[t] \in {"construct", "publish"}

OnceInv ==
  /\ Once!TypeOK
  /\ \A t, u \in Thread : Builder(t) /\ Builder(u) => t = u
  /\ s1 = Once!UNINITIALIZED => s2 = 0
  /\ \A t \in Thread :
       /\ Builder(t) => s1 \in {Once!INITIALIZING, Once!WAITING}
       /\ pc[t] = "construct" => s2 = 0
       /\ pc[t] = "publish" => s2 = 1
       /\ pc[t] \in {"done", "futex_wake"} => s1 = Once!INITIALIZED
  /\ s1 = Once!INITIALIZED => s2 = 1
  /\ s2 <= 1

(* Every step of call_once keeps this.                                     *)
LEMMA OnceStep ==
  ASSUME OnceInv, NEW t \in Thread,
         Once!Step(t) \/ (Once!spurious(t) /\ UNCHANGED <<s1, s2>>)
  PROVE  OnceInv'
<1> USE DEF OnceInv, Builder, Once!Goto, Once!UNINITIALIZED, Once!INITIALIZING, Once!WAITING,
            Once!INITIALIZED
<1> DEFINE S == Once!call_once(t) \/ Once!construct(t) \/ Once!publish(t) \/ Once!attempt(t)
                \/ Once!mark_long(t)
           F == \/ Once!futex_wait(t, s1 = Once!WAITING, "attempt") \/ Once!wait_returns(t, "attempt")
                \/ Once!futex_wake(t, "done") \/ Once!spurious(t)
<1>1. /\ s1 \in {0, 1, 2, 3} /\ s2 \in Nat /\ pc \in [Thread -> Once!Label] /\ asleep \subseteq Thread
  BY DEF Once!TypeOK
<1>2. S \/ (F /\ UNCHANGED <<s1, s2>>)
  BY DEF Once!Step
<1>3. PICK label \in Once!Label : pc' = [pc EXCEPT ![t] = label]
  <2>1. CASE Once!spurious(t)
    <3>1. pc' = [pc EXCEPT ![t] = pc[t]] /\ pc[t] \in Once!Label
      BY <1>1, <2>1 DEF Once!spurious
    <3> QED BY <3>1, ZenonT(30)
  <2>2. CASE ~Once!spurious(t)
    BY <1>2, <2>2 DEF Once!call_once, Once!construct, Once!publish, Once!attempt, Once!mark_long,
           Once!futex_wait, Once!wait_returns, Once!futex_wake, Once!Label
  <2> QED BY <2>1, <2>2
<1>4. pc'[t] = label /\ \A u \in Thread \ {t} : pc'[u] = pc[u]
  BY <1>1, <1>3
<1>5. asleep' \subseteq Thread
  BY <1>1, <1>2 DEF Once!call_once, Once!construct, Once!publish, Once!attempt, Once!mark_long,
         Once!futex_wait, Once!wait_returns, Once!futex_wake, Once!spurious
<1>6. \/ pc[t] = "start" /\ s1 = 0 /\ s1' = 1 /\ s2' = s2 /\ label = "construct"
      \/ pc[t] = "construct" /\ s1' = s1 /\ s2' = s2 + 1 /\ label = "publish"
      \/ pc[t] = "publish" /\ s1' = 3 /\ s2' = s2 /\ label \in {"futex_wake", "done"}
      \/ s1 = 1 /\ s1' = 2 /\ s2' = s2 /\ label = "futex_wait" /\ pc[t] = "mark_long"
      \/ s1' = s1 /\ s2' = s2 /\ label = pc[t]
      \/ /\ s1' = s1 /\ s2' = s2 /\ ~Builder(t) /\ label \notin {"construct", "publish"}
         /\ label \in {"done", "futex_wake"} => s1 = 3
  BY <1>1, <1>2, <1>4 DEF Once!call_once, Once!construct, Once!publish, Once!attempt, Once!mark_long,
         Once!futex_wait, Once!wait_returns, Once!futex_wake, Once!spurious
<1>7. Once!TypeOK'
  BY <1>1, <1>3, <1>5, <1>6 DEF Once!TypeOK
<1>8. \A u, v \in Thread : Builder(u)' /\ Builder(v)' => u = v
  BY <1>1, <1>4, <1>6
<1>9. /\ s1' = 0 => s2' = 0
      /\ s1' = 3 => s2' = 1
      /\ s2' <= 1
  BY <1>1, <1>4, <1>6
<1>10. ASSUME NEW u \in Thread
       PROVE  /\ Builder(u)' => s1' \in {1, 2}
              /\ pc'[u] = "construct" => s2' = 0
              /\ pc'[u] = "publish" => s2' = 1
              /\ pc'[u] \in {"done", "futex_wake"} => s1' = 3
  BY <1>1, <1>4, <1>6
<1> QED BY <1>7, <1>8, <1>9, <1>10

(* Of any number of threads that race through call_once, one runs the      *)
(* constructor, once, and none returns before it has.                      *)
THEOREM OnceIsSound == Spec => []OnceSound
<1> DEFINE Inv == kind = "once" => OnceInv
<1>1. Init => Inv
  BY DEF Init, OnceInv, Builder, Once!Init, Once!TypeOK, Once!Label, Once!UNINITIALIZED, Once!INITIALIZED,
         Once!INITIALIZING, Once!WAITING
<1>2. Inv /\ [Next]_vars => Inv'
  <2> SUFFICES ASSUME Inv, [Next]_vars, kind' = "once" PROVE OnceInv'
    OBVIOUS
  <2>1. kind = "once" /\ OnceInv
    BY DEF Next, vars
  <2>2. CASE UNCHANGED vars
    BY <2>1, <2>2 DEF vars, OnceInv, Builder, Once!TypeOK
  <2>3. CASE Once!Next
    BY <2>1, <2>3, OnceStep DEF Once!Next
  <2> QED BY <2>1, <2>2, <2>3 DEF Next
<1>3. Inv => OnceSound
  BY DEF OnceInv, OnceSound, Once!ConstructedOnce, Once!ReturnsInitialized
<1> HIDE DEF Inv
<1> QED BY <1>1, <1>2, <1>3, PTL DEF Spec

-----------------------------------------------------------------------------
(* Cond, with clients that signal while they hold the mutex                *)

(* The mutex is held exactly at these labels.                              *)
CondHeld == {"test", "wait_load", "wait_store", "wait_unlock", "wake_load", "wake_store", "futex_wake"}

Signals(t) == pc[t] \in {"wake_load", "wake_store"}

(* cur is prev or one more than it, and stays below the items added.  What *)
(* a consumer has loaded is at most prev once it has stored it, so that    *)
(* the store of a signal makes its futex_wait return Stale; one that is    *)
(* about to sleep, or asleep, with an item there has a signal to come.     *)
CondInv ==
  /\ Cond!TypeOK
  /\ s2 <= s1 /\ s1 <= s2 + 1 /\ s1 <= s6
  /\ \A t \in Thread : s3 = t <=> pc[t] \in CondHeld
  /\ \A p \in Producer :
       /\ pc[p] \in {"outside", "wake_load", "wake_store", "futex_wake"}
       /\ Signals(p) => s1 < s6
       /\ pc[p] = "wake_store" => s4[p] = s2
       /\ pc[p] = "futex_wake" => s1 = s2 + 1
  /\ \A c \in Consumer :
       /\ pc[c] \notin {"wake_load", "wake_store", "futex_wake"}
       /\ pc[c] \in {"wait_load", "wait_store", "wait_unlock"} => s5 = 0
       /\ pc[c] = "wait_store" => s4[c] = s1
       /\ pc[c] \in {"wait_unlock", "futex_wait"} => s4[c] <= s2
       /\ pc[c] = "futex_wait" /\ s4[c] = s1 /\ s5 # 0 => \E p \in Producer : Signals(p)
       /\ c \in asleep => pc[c] = "sleep" /\ (s5 = 0 \/ \E p \in Producer : pc[p] # "outside")
  /\ asleep \subseteq Consumer

(* The types in the form the steps below use them.                         *)
LEMMA CondTypes ==
  Cond!TypeOK <=>
    /\ s1 \in 0..(CondWord - 1) /\ s2 \in 0..(CondWord - 1) /\ s3 \in Thread \cup {Nobody}
    /\ s4 \in [Thread -> 0..(CondWord - 1)] /\ asleep \subseteq Thread
    /\ pc \in [Thread -> {"outside", "test"} \cup Cond!CondLabel]
    /\ s5 \in Nat /\ s6 \in 0..MaxItems
BY DEF Cond!TypeOK, Cond!CondTypeOK

(* A step of a consumer, up to the unlock of the mutex in wait.            *)
LEMMA CondConsumes ==
  ASSUME CondInv, NEW c \in Consumer,
         \/ Cond!Enter(c) \/ Cond!Test(c)
         \/ (Cond!wait_load(c) \/ Cond!wait_store(c) \/ Cond!wait_unlock(c) \/ Cond!relock(c, "test"))
            /\ UNCHANGED <<s5, s6>>
  PROVE  CondInv'
<1> USE SyncAssumption DEF CondInv, Cond!Goto, CondHeld, Signals
<1>1. /\ s1 \in Nat /\ s2 \in Nat /\ s3 \in Thread \cup {Nobody}
      /\ s4 \in [Thread -> 0..(CondWord - 1)] /\ asleep \subseteq Consumer
      /\ pc \in [Thread -> {"outside", "test"} \cup Cond!CondLabel]
      /\ s5 \in Nat /\ s6 \in 0..MaxItems
      /\ s1 \in 0..(CondWord - 1) /\ s2 \in 0..(CondWord - 1)
  BY CondTypes
<1>2. c \in Thread /\ Nobody # c /\ \A t \in Thread : t \in Consumer \/ t \in Producer
  OBVIOUS
<1>3. PICK label \in {"outside", "test", "wait_load", "wait_store", "wait_unlock", "futex_wait"} :
        pc' = [pc EXCEPT ![c] = label]
  BY DEF Cond!Enter, Cond!Test, Cond!wait_load, Cond!wait_store, Cond!wait_unlock, Cond!relock
<1>4. pc'[c] = label /\ \A t \in Thread \ {c} : pc'[t] = pc[t]
  BY <1>1, <1>2, <1>3
<1>5. s1' = s1 /\ s6' = s6 /\ asleep' = asleep
  BY DEF Cond!Enter, Cond!Test, Cond!wait_load, Cond!wait_store, Cond!wait_unlock, Cond!relock
<1>6. \/ /\ pc[c] \in {"outside", "relock"} /\ label = "test" /\ s3 = Nobody /\ s3' = c
         /\ s2' = s2 /\ s4' = s4 /\ s5' = s5
      \/ /\ pc[c] = "test" /\ label = "outside" /\ s3' = Nobody /\ s5 > 0 /\ s5' = s5 - 1
         /\ s2' = s2 /\ s4' = s4
      \/ /\ pc[c] = "test" /\ label = "wait_load" /\ s3' = s3 /\ s5 = 0 /\ s5' = 0
         /\ s2' = s2 /\ s4' = s4
      \/ /\ pc[c] = "wait_load" /\ label = "wait_store" /\ s3' = s3 /\ s5' = s5
         /\ s2' = s2 /\ s4' = [s4 EXCEPT ![c] = s1]
      \/ /\ pc[c] = "wait_store" /\ label = "wait_unlock" /\ s3' = s3 /\ s5' = s5
         /\ s2' = s4[c] /\ s4' = s4
      \/ /\ pc[c] = "wait_unlock" /\ label = "futex_wait" /\ s3' = Nobody /\ s5' = s5
         /\ s2' = s2 /\ s4' = s4
  BY <1>1, <1>2, <1>3, <1>4 DEF Cond!Enter, Cond!Test, Cond!wait_load, Cond!wait_store, Cond!wait_unlock, Cond!relock
<1>7. /\ s4' \in [Thread -> 0..(CondWord - 1)] /\ s2' \in 0..(CondWord - 1) /\ s5' \in Nat
      /\ s3' \in Thread \cup {Nobody}
      /\ \A t \in Thread \ {c} : s4'[t] = s4[t]
      /\ s4'[c] = IF label = "wait_store" THEN s1 ELSE s4[c]
      /\ s2' = s2 \/ (s2' = s1 /\ pc[c] = "wait_store")
  BY <1>1, <1>2, <1>6
<1>8. Cond!TypeOK'
  BY <1>1, <1>3, <1>5, <1>7, CondTypes DEF Cond!TypeOK, Cond!CondTypeOK, Cond!CondLabel
<1>9. \A t \in Thread : s3' = t <=> pc'[t] \in CondHeld
  BY <1>1, <1>2, <1>4, <1>6
<1>10. s2' <= s1' /\ s1' <= s2' + 1 /\ s1' <= s6' /\ s2 <= s2'
  <2>1. s1 \in Nat /\ s2 \in Nat /\ s2 <= s1 /\ s1 <= s2 + 1 /\ s1 <= s6 /\ (s2' = s2 \/ s2' = s1)
    BY <1>1, <1>7
  <2> QED BY ONLY <2>1, <1>5, SMTT(30)
<1>11. ASSUME NEW p \in Producer
       PROVE  /\ pc'[p] = pc[p] /\ pc'[p] \in {"outside", "wake_load", "wake_store", "futex_wake"}
              /\ Signals(p)' => s1' < s6'
              /\ pc'[p] = "wake_store" => s4'[p] = s2'
              /\ pc'[p] = "futex_wake" => s1' = s2' + 1
  <2>1. pc'[p] = pc[p] /\ s4'[p] = s4[p] /\ p # c
    BY <1>1, <1>2, <1>4, <1>7
  <2>2. s2' = s2 \/ pc[p] \notin {"wake_load", "wake_store", "futex_wake"}
    BY <2>1, <1>1, <1>2, <1>6, <1>7
  <2> QED BY <2>1, <2>2, <1>1, <1>2, <1>5
<1>12. ASSUME NEW d \in Consumer
       PROVE  /\ pc'[d] \notin {"wake_load", "wake_store", "futex_wake"}
              /\ pc'[d] \in {"wait_load", "wait_store", "wait_unlock"} => s5' = 0
              /\ pc'[d] = "wait_store" => s4'[d] = s1'
              /\ pc'[d] \in {"wait_unlock", "futex_wait"} => s4'[d] <= s2'
  <2>1. CASE d = c
    BY <2>1, <1>1, <1>2, <1>4, <1>5, <1>6, <1>7, <1>10
  <2>2. CASE d # c
    <3>1. d \in Thread /\ pc'[d] = pc[d] /\ s4'[d] = s4[d] /\ s4[d] \in Nat
      BY <2>2, <1>1, <1>4, <1>7
    <3>2. s5' # s5 => s5 > 0
      BY <1>6
    <3> QED BY <3>1, <3>2, <1>1, <1>5, <1>6, <1>7, <1>10
  <2> QED BY <2>1, <2>2
<1>13. s5' # 0 => s5 # 0
  BY <1>1, <1>6
<1>14. ASSUME NEW d \in Consumer, pc'[d] = "futex_wait", s4'[d] = s1', s5' # 0
       PROVE  \E p \in Producer : Signals(p)'
  <2>1. pc[d] = "futex_wait" /\ s4[d] = s1
    BY <1>14, <1>1, <1>2, <1>4, <1>5, <1>6, <1>7, <1>13
  <2>2. PICK p \in Producer : Signals(p)
    BY <2>1, <1>13, <1>14
  <2> QED BY <2>2, <1>11
<1>15. ASSUME NEW d \in Consumer, d \in asleep'
       PROVE  pc'[d] = "sleep" /\ (s5' = 0 \/ \E p \in Producer : pc'[p] # "outside")
  <2>1. pc[d] = "sleep" /\ pc'[d] = pc[d]
    BY <1>15, <1>1, <1>4, <1>5, <1>6
  <2>2. CASE s5' # 0
    <3>1. PICK p \in Producer : pc[p] # "outside"
      BY <1>15, <1>5, <1>13, <2>2
    <3> QED BY <2>1, <3>1, <1>11
  <2> QED BY <2>1, <2>2
<1> QED BY <1>1, <1>5, <1>8, <1>9, <1>10, <1>11, <1>12, <1>14, <1>15

(* A step of a consumer in futex_wait.                                     *)
LEMMA CondSleeps ==
  ASSUME CondInv, NEW c \in Consumer, UNCHANGED <<s5, s6>>,
         Cond!wait_sleep(c) \/ Cond!cond_spurious(c)
  PROVE  CondInv'
<1> USE SyncAssumption DEF CondInv, Cond!Goto, CondHeld, Signals
<1>1. /\ s1 \in 0..(CondWord - 1) /\ s4 \in [Thread -> 0..(CondWord - 1)] /\ asleep \subseteq Consumer
      /\ pc \in [Thread -> {"outside", "test"} \cup Cond!CondLabel]
  BY CondTypes
<1>2. c \in Thread /\ \A t \in Thread : t \in Consumer \/ t \in Producer
  OBVIOUS
<1>3. s1' = s1 /\ s2' = s2 /\ s3' = s3 /\ s4' = s4 /\ s5' = s5 /\ s6' = s6
  BY DEF Cond!wait_sleep, Cond!cond_spurious
<1>4. \/ /\ pc[c] = "futex_wait" /\ s1 = s4[c] /\ asleep' = asleep \cup {c}
         /\ pc' = [pc EXCEPT ![c] = "sleep"]
      \/ /\ pc[c] = "futex_wait" /\ asleep' = asleep /\ pc' = [pc EXCEPT ![c] = "relock"]
      \/ /\ pc[c] = "sleep" /\ c \notin asleep /\ asleep' = asleep /\ pc' = [pc EXCEPT ![c] = "relock"]
      \/ /\ c \in asleep /\ asleep' = asleep \ {c} /\ pc' = pc
  BY DEF Cond!wait_sleep, Cond!cond_spurious, Cond!futex_wait, Cond!wait_returns, Cond!spurious
<1>5. pc' \in [Thread -> {"outside", "test"} \cup Cond!CondLabel] /\ asleep' \subseteq Consumer
  BY <1>1, <1>2, <1>4 DEF Cond!CondLabel
<1>6. Cond!TypeOK'
  BY <1>2, <1>3, <1>5, CondTypes DEF Cond!TypeOK, Cond!CondTypeOK
<1>7. /\ pc'[c] = pc[c] \/ pc'[c] \in {"sleep", "relock"}
      /\ pc[c] \in {"futex_wait", "sleep"}
      /\ \A t \in Thread \ {c} : pc'[t] = pc[t]
  BY <1>1, <1>2, <1>4
<1>8. \A t \in Thread : s3' = t <=> pc'[t] \in CondHeld
  BY <1>2, <1>3, <1>7
<1>9. \A p \in Producer : pc'[p] = pc[p]
  BY <1>2, <1>7
<1>10. ASSUME NEW d \in Consumer
       PROVE  /\ pc'[d] \notin {"wake_load", "wake_store", "futex_wake"}
              /\ pc'[d] \in {"wait_load", "wait_store", "wait_unlock"} => s5' = 0
              /\ pc'[d] = "wait_store" => s4'[d] = s1'
              /\ pc'[d] \in {"wait_unlock", "futex_wait"} => s4'[d] <= s2'
              /\ pc'[d] = "futex_wait" /\ s4'[d] = s1' /\ s5' # 0 => \E p \in Producer : Signals(p)'
  BY <1>2, <1>3, <1>7, <1>9
<1>11. ASSUME NEW d \in Consumer, d \in asleep'
       PROVE  pc'[d] = "sleep" /\ (s5' = 0 \/ \E p \in Producer : pc'[p] # "outside")
  <2>1. CASE d \in asleep
    BY <2>1, <1>11, <1>1, <1>2, <1>3, <1>4, <1>9
  <2>2. CASE d \notin asleep
    BY <2>2, <1>11, <1>1, <1>2, <1>3, <1>4, <1>9
  <2> QED BY <2>1, <2>2
<1> QED BY <1>3, <1>5, <1>6, <1>8, <1>9, <1>10, <1>11

(* A step of a producer.                                                   *)
LEMMA CondProduces ==
  ASSUME CondInv, NEW p \in Producer, Cond!Produce(p)
  PROVE  CondInv'
<1> USE SyncAssumption DEF CondInv, Cond!Goto, CondHeld, Signals
<1>1. /\ s1 \in 0..(CondWord - 1) /\ s2 \in 0..(CondWord - 1) /\ s3 \in Thread \cup {Nobody}
      /\ s4 \in [Thread -> 0..(CondWord - 1)] /\ asleep \subseteq Consumer
      /\ pc \in [Thread -> {"outside", "test"} \cup Cond!CondLabel]
      /\ s5 \in Nat /\ s6 \in 0..MaxItems
  BY CondTypes
<1>2. p \in Thread /\ p \notin Consumer /\ Nobody # p /\ \A t \in Thread : t \in Consumer \/ t \in Producer
  OBVIOUS
<1>3. PICK label \in {"outside", "wake_load", "wake_store", "futex_wake"} : pc' = [pc EXCEPT ![p] = label]
  BY DEF Cond!Produce, Cond!Add, Cond!wake_step, Cond!wake_load, Cond!wake_store, Cond!wake_call, Cond!futex_wake
<1>4. pc'[p] = label /\ \A t \in Thread \ {p} : pc'[t] = pc[t]
  BY <1>1, <1>2, <1>3
<1>5. s2' = s2
  BY DEF Cond!Produce, Cond!Add, Cond!wake_step, Cond!wake_load, Cond!wake_store, Cond!wake_call
<1>6. \/ /\ pc[p] = "outside" /\ label = "wake_load" /\ s3 = Nobody /\ s3' = p /\ s6 < MaxItems
         /\ s5' = s5 + 1 /\ s6' = s6 + 1 /\ s1' = s1 /\ s4' = s4 /\ asleep' = asleep
      \/ /\ pc[p] = "wake_load" /\ label = "wake_store" /\ s3' = s3
         /\ s5' = s5 /\ s6' = s6 /\ s1' = s1 /\ s4' = [s4 EXCEPT ![p] = s2] /\ asleep' = asleep
      \/ /\ pc[p] = "wake_store" /\ label = "futex_wake" /\ s3' = s3
         /\ s5' = s5 /\ s6' = s6 /\ s1' = (s4[p] + 1) % CondWord /\ s4' = s4 /\ asleep' = asleep
      \/ /\ pc[p] = "futex_wake" /\ label = "outside" /\ s3' = (IF s3 = p THEN Nobody ELSE s3)
         /\ s5' = s5 /\ s6' = s6 /\ s1' = s1 /\ s4' = s4 /\ asleep' = {}
  BY <1>1, <1>2, <1>3, <1>4
     DEF Cond!Produce, Cond!Add, Cond!wake_step, Cond!wake_load, Cond!wake_store, Cond!wake_call, Cond!futex_wake
<1>7. pc[p] = "wake_store" => s1' = s2 + 1
  <2>1. SUFFICES ASSUME pc[p] = "wake_store" PROVE s1' = s2 + 1
    OBVIOUS
  <2>2. s1' = (s2 + 1) % CondWord /\ s1 < s6
    BY <2>1, <1>6
  <2>3. s2 + 1 \in Nat /\ s2 + 1 < CondWord /\ CondWord \in Nat
    BY <2>2, <1>1
  <2>4. (s2 + 1) % CondWord = s2 + 1
    BY <2>3, Z3
  <2> QED BY <2>2, <2>4
<1>8. /\ s4' \in [Thread -> 0..(CondWord - 1)] /\ s3' \in Thread \cup {Nobody} /\ s5' \in Nat /\ s6' \in 0..MaxItems
      /\ asleep' \subseteq Consumer
      /\ \A t \in Thread \ {p} : s4'[t] = s4[t]
      /\ label = "wake_store" => s4'[p] = s2
  BY <1>1, <1>2, <1>6
<1>9. s1' \in 0..(CondWord - 1) /\ s2' <= s1' /\ s1' <= s2' + 1 /\ s1' <= s6' /\ (label \in {"wake_load", "wake_store"} => s1' < s6')
  BY <1>1, <1>5, <1>6, <1>7
<1>10. Cond!TypeOK'
  BY <1>1, <1>2, <1>3, <1>5, <1>8, <1>9, CondTypes DEF Cond!TypeOK, Cond!CondTypeOK, Cond!CondLabel
<1>11. \A t \in Thread : s3' = t <=> pc'[t] \in CondHeld
  BY <1>1, <1>2, <1>4, <1>6
<1>12. \A t \in Thread \ {p} : pc[t] \notin CondHeld
  BY <1>2, <1>6
<1>13. ASSUME NEW q \in Producer
       PROVE  /\ pc'[q] \in {"outside", "wake_load", "wake_store", "futex_wake"}
              /\ Signals(q)' => s1' < s6'
              /\ pc'[q] = "wake_store" => s4'[q] = s2'
              /\ pc'[q] = "futex_wake" => s1' = s2' + 1
  BY <1>2, <1>4, <1>5, <1>6, <1>7, <1>8, <1>9, <1>12
<1>14. ASSUME NEW d \in Consumer
       PROVE  /\ pc'[d] = pc[d] /\ pc[d] \notin CondHeld /\ s4'[d] = s4[d]
              /\ pc[d] = "futex_wait" => s4[d] <= s2
  BY <1>2, <1>4, <1>8, <1>12
<1>15. ASSUME NEW d \in Consumer, pc'[d] = "futex_wait", s4'[d] = s1', s5' # 0
       PROVE  \E q \in Producer : Signals(q)'
  <2>1. s4[d] \in Nat /\ s4[d] <= s2 /\ s4[d] = s1'
    BY <1>15, <1>14, <1>1, <1>2
  <2>2. pc[p] # "wake_store"
    BY <2>1, <1>1, <1>7
  <2>3. pc[p] # "futex_wake"
    BY <2>1, <1>1, <1>6
  <2>4. label \in {"wake_load", "wake_store"}
    BY <2>2, <2>3, <1>6
  <2> QED BY <2>4, <1>4
<1>16. ASSUME NEW d \in Consumer, d \in asleep'
       PROVE  pc'[d] = "sleep" /\ (s5' = 0 \/ \E q \in Producer : pc'[q] # "outside")
  <2>1. d \in asleep /\ label # "outside"
    BY <1>16, <1>6
  <2> QED BY <2>1, <1>4, <1>14
<1> QED BY <1>5, <1>8, <1>9, <1>10, <1>11, <1>13, <1>14, <1>15, <1>16

(* No signal that is made with the mutex held is lost, for any number of   *)
(* producers and consumers, as long as there are fewer signals than values *)
(* of the word.                                                            *)
THEOREM NoSignalIsLost == Spec => []CondSignals
<1> DEFINE Inv == kind = "cond" => CondInv
<1>1. Init => Inv
  <2> SUFFICES ASSUME Init, kind = "cond" PROVE CondInv
    OBVIOUS
  <2>1. Cond!Init
    BY DEF Init
  <2>2. Cond!TypeOK
    BY <2>1, SyncAssumption, CondTypes DEF Cond!Init, Cond!CondInit
  <2> QED BY <2>1, <2>2, SyncAssumption DEF CondInv, CondHeld, Signals, Cond!Init, Cond!CondInit
<1>2. Inv /\ [Next]_vars => Inv'
  <2> SUFFICES ASSUME Inv, [Next]_vars, kind' = "cond" PROVE CondInv'
    OBVIOUS
  <2>1. kind = "cond" /\ CondInv
    BY DEF Next, vars
  <2>2. CASE UNCHANGED vars
    BY <2>1, <2>2 DEF vars, CondInv, CondHeld, Signals, Cond!TypeOK, Cond!CondTypeOK
  <2>3. CASE Cond!Next
    <3>1. ASSUME NEW c \in Consumer, Cond!Consume(c) \/ (Cond!cond_spurious(c) /\ UNCHANGED <<s5, s6>>)
          PROVE  CondInv'
      BY <3>1, <2>1, CondConsumes, CondSleeps DEF Cond!Consume, Cond!wait_step
    <3>2. ASSUME NEW p \in Producer, Cond!Produce(p) PROVE CondInv'
      BY <3>2, <2>1, CondProduces
    <3> QED BY <2>3, <3>1, <3>2 DEF Cond!Next
  <2> QED BY <2>1, <2>2, <2>3 DEF Next
<1>3. Inv => CondSignals
  BY SyncAssumption DEF CondInv, CondSignals, Cond!NoLostSignal
<1> HIDE DEF Inv
<1> QED BY <1>1, <1>2, <1>3, PTL DEF Spec

-----------------------------------------------------------------------------
(* Pthread                                                                 *)

(* What holds of one thread of the program, whatever the others do: it     *)
(* uses the frame of create only while synchronization_mutex is locked,    *)
(* the value is written before the word that tells of it, and only a       *)
(* detached thread takes itself out of the table.                          *)
PthreadAt(c) ==
  /\ pc[c] = "unborn" <=> s1[c] \in {"none", "clone", "error"}
  /\ s1[c] \in {"none", "clone", "error"} => c \notin s9
  /\ pc[c] \in {"tid", "unlock"} => s3[c] /\ s1[c] \in {"guard", "lock"}
  /\ s1[c] = "clone" => s3[c]
  /\ s5[c] = 1 \/ pc[c] \in {"store", "wake"} \/ s7[c] = "read" => s6[c]
  /\ pc[c] = "dealloc" => s4[c]
  /\ s7[c] # "none" => s1[c] = "ok" /\ ~s4[c]
  /\ s7[c] # "uninit"
  /\ c \in s8 <=> s1[c] = "clone" \/ pc[c] \notin {"unborn", "gone"}
  /\ s1[c] = "ok" /\ ~s4[c] => (c \in s9 <=> s7[c] # "joined")

PthreadInv == Pthread!TypeOK /\ \A c \in Consumer : PthreadAt(c)

(* A step about one thread leaves what holds of the others.                *)
LEMMA PthreadOthers ==
  ASSUME PthreadInv, NEW c \in Consumer, Pthread!TypeOK', PthreadAt(c)',
         \A d \in Consumer \ {c} :
           /\ pc'[d] = pc[d] /\ s1'[d] = s1[d] /\ s3'[d] = s3[d] /\ s4'[d] = s4[d] /\ s5'[d] = s5[d]
           /\ s6'[d] = s6[d] /\ s7'[d] = s7[d]
           /\ d \in s8' <=> d \in s8
           /\ d \in s9' <=> d \in s9
  PROVE  PthreadInv'
<1>1. ASSUME NEW d \in Consumer, d # c PROVE PthreadAt(d)'
  BY <1>1 DEF PthreadInv, PthreadAt
<1> QED BY <1>1 DEF PthreadInv

(* A step of create keeps the invariant.                                   *)
LEMMA PthreadCreates ==
  ASSUME PthreadInv, NEW c \in Consumer,
         (\E attr \in BOOLEAN : Pthread!create(c, attr)) \/ Pthread!CreatorStep(c)
  PROVE  PthreadInv'
<1> USE DEF Pthread!Creator, Pthread!Run, Pthread!waitval
<1>1. PthreadAt(c) /\ Pthread!TypeOK
  BY DEF PthreadInv
<1>2. CASE \E attr \in BOOLEAN : Pthread!create(c, attr)
  <2>1. PICK attr \in BOOLEAN : Pthread!create(c, attr)
    BY <1>2
  <2>2. Pthread!TypeOK'
    <3>1. s4' = [s4 EXCEPT ![c] = TRUE] \/ s4' = [s4 EXCEPT ![c] = FALSE] \/ s4' = s4
      BY <2>1, ZenonT(30) DEF Pthread!create
    <3>2. s4' \in [Consumer -> BOOLEAN]
      BY <1>1, <3>1, ZenonT(30) DEF Pthread!TypeOK
    <3> QED BY <1>1, <2>1, <3>2, ZenonT(30) DEF Pthread!create, Pthread!TypeOK
  <2>3. PthreadAt(c)'
    <3>1. /\ s1[c] = "none" /\ s1'[c] \in {"clone", "error"} /\ (s1'[c] = "clone" => s3'[c])
          /\ pc' = pc /\ s5' = s5 /\ s6' = s6 /\ s7' = s7 /\ s9' = s9
          /\ c \in s8' <=> c \in s8 \/ s1'[c] = "clone"
      BY <1>1, <2>1 DEF Pthread!create, Pthread!TypeOK
    <3>2. pc[c] = "unborn" /\ s7[c] = "none"
      BY <1>1, <3>1 DEF PthreadAt
    <3> QED BY <1>1, <3>1, <3>2 DEF PthreadAt
  <2> QED BY <1>1, <2>1, <2>2, <2>3, PthreadOthers DEF Pthread!create, Pthread!TypeOK
<1>3. CASE Pthread!rlct_clone(c)
  <2>1. Pthread!TypeOK'
    BY <1>1, <1>3 DEF Pthread!rlct_clone, Pthread!TypeOK
  <2>2. PthreadAt(c)'
    BY <1>1, <1>3 DEF Pthread!rlct_clone, Pthread!TypeOK, PthreadAt
  <2> QED BY <1>1, <1>3, <2>1, <2>2, PthreadOthers DEF Pthread!rlct_clone, Pthread!TypeOK
<1>4. CASE Pthread!tid_write(c) \/ Pthread!sync_lock(c) \/ Pthread!insert(c)
  <2>1. Pthread!TypeOK'
    BY <1>1, <1>4, ZenonT(30) DEF Pthread!tid_write, Pthread!sync_lock, Pthread!insert, Pthread!TypeOK
  <2>2. PthreadAt(c)'
    BY <1>1, <1>4 DEF Pthread!tid_write, Pthread!sync_lock, Pthread!insert, Pthread!TypeOK, PthreadAt
  <2> QED BY <1>1, <1>4, <2>1, <2>2, PthreadOthers
          DEF Pthread!tid_write, Pthread!sync_lock, Pthread!insert, Pthread!TypeOK
<1> QED BY <1>2, <1>3, <1>4 DEF Pthread!CreatorStep

(* A step of the thread itself keeps the invariant.                        *)
LEMMA PthreadRuns ==
  ASSUME PthreadInv, NEW c \in Consumer, Pthread!ThreadStep(c) \/ Pthread!exit_current_thread(c)
  PROVE  PthreadInv'
<1> USE DEF Pthread!Run, Pthread!waitval, Pthread!createVars
<1>1. PthreadAt(c) /\ Pthread!TypeOK
  BY DEF PthreadInv
<1>2. CASE Pthread!shim_tid(c) \/ Pthread!shim_unlock(c) \/ Pthread!exit_current_thread(c)
  <2>1. Pthread!TypeOK'
    BY <1>1, <1>2, ZenonT(30) DEF Pthread!shim_tid, Pthread!shim_unlock, Pthread!exit_current_thread, Pthread!TypeOK
  <2>2. PthreadAt(c)'
    BY <1>1, <1>2 DEF Pthread!shim_tid, Pthread!shim_unlock, Pthread!exit_current_thread, Pthread!TypeOK, PthreadAt
  <2> QED BY <1>1, <1>2, <2>1, <2>2, PthreadOthers
          DEF Pthread!shim_tid, Pthread!shim_unlock, Pthread!exit_current_thread, Pthread!TypeOK
<1>3. CASE Pthread!exit_dealloc(c) \/ Pthread!exit_thread(c)
  <2>1. Pthread!TypeOK'
    BY <1>1, <1>3 DEF Pthread!exit_dealloc, Pthread!exit_thread, Pthread!TypeOK
  <2>2. PthreadAt(c)'
    BY <1>1, <1>3 DEF Pthread!exit_dealloc, Pthread!exit_thread, Pthread!TypeOK, PthreadAt
  <2> QED BY <1>1, <1>3, <2>1, <2>2, PthreadOthers DEF Pthread!exit_dealloc, Pthread!exit_thread, Pthread!TypeOK
<1>4. CASE Pthread!post(c)
  <2>1. Pthread!TypeOK'
    BY <1>1, <1>4, ZenonT(30) DEF Pthread!post, Pthread!TypeOK
  <2>2. PthreadAt(c)'
    BY <1>1, <1>4 DEF Pthread!post, Pthread!TypeOK, PthreadAt
  <2> QED BY <1>1, <1>4, <2>1, <2>2, PthreadOthers DEF Pthread!post, Pthread!TypeOK
<1> QED BY <1>2, <1>3, <1>4 DEF Pthread!ThreadStep

(* A step of join or detach keeps the invariant.                           *)
LEMMA PthreadJoins ==
  ASSUME PthreadInv, NEW c \in Consumer,
         Pthread!JoinerStep(c) \/ Pthread!join(c) \/ Pthread!spurious(c) \/ Pthread!detach(c)
  PROVE  PthreadInv'
<1> USE DEF Pthread!Join, Pthread!waitval, Pthread!createVars
<1>1. PthreadAt(c) /\ Pthread!TypeOK
  BY DEF PthreadInv
<1>2. CASE Pthread!wait(c)
  <2>1. Pthread!TypeOK'
    BY <1>1, <1>2 DEF Pthread!wait, Pthread!TypeOK
  <2>2. PthreadAt(c)'
    BY <1>1, <1>2 DEF Pthread!wait, Pthread!TypeOK, PthreadAt
  <2> QED BY <1>1, <1>2, <2>1, <2>2, PthreadOthers DEF Pthread!wait, Pthread!TypeOK
<1>3. CASE Pthread!join_dealloc(c) \/ Pthread!join(c)
  <2>1. Pthread!TypeOK'
    BY <1>1, <1>3 DEF Pthread!join_dealloc, Pthread!join, Pthread!TypeOK
  <2>2. PthreadAt(c)'
    BY <1>1, <1>3 DEF Pthread!join_dealloc, Pthread!join, Pthread!TypeOK, PthreadAt
  <2> QED BY <1>1, <1>3, <2>1, <2>2, PthreadOthers DEF Pthread!join_dealloc, Pthread!join, Pthread!TypeOK
<1>4. CASE Pthread!spurious(c) \/ Pthread!detach(c)
  <2>1. Pthread!TypeOK'
    BY <1>1, <1>4, ZenonT(30) DEF Pthread!spurious, Pthread!detach, Pthread!TypeOK
  <2>2. PthreadAt(c)'
    BY <1>1, <1>4 DEF Pthread!spurious, Pthread!detach, Pthread!TypeOK, PthreadAt
  <2> QED BY <1>1, <1>4, <2>1, <2>2, PthreadOthers DEF Pthread!spurious, Pthread!detach, Pthread!TypeOK
<1> QED BY <1>2, <1>3, <1>4 DEF Pthread!JoinerStep

(* The frame of create, the stack and the table entry of every thread live *)
(* as long as they are used, and join reads the value the thread wrote.    *)
THEOREM ThreadsAreSound == Spec => []PthreadSound
<1> DEFINE Inv == kind = "pthread" => PthreadInv
<1>1. Init => Inv
  <2> SUFFICES ASSUME Init, kind = "pthread" PROVE PthreadInv
    OBVIOUS
  <2>1. Pthread!Init
    BY DEF Init
  <2>2. Pthread!TypeOK
    BY <2>1 DEF Pthread!Init, Pthread!TypeOK
  <2>3. \A c \in Consumer : PthreadAt(c)
    BY <2>1 DEF Pthread!Init, PthreadAt
  <2> QED BY <2>2, <2>3 DEF PthreadInv
<1>2. Inv /\ [Next]_vars => Inv'
  <2> SUFFICES ASSUME Inv, [Next]_vars, kind' = "pthread" PROVE PthreadInv'
    OBVIOUS
  <2>1. kind = "pthread" /\ PthreadInv
    BY DEF Next, vars
  <2>2. CASE UNCHANGED vars
    BY <2>1, <2>2 DEF vars, PthreadInv, PthreadAt, Pthread!TypeOK
  <2>3. CASE Pthread!Next
    BY <2>1, <2>3, PthreadCreates, PthreadRuns, PthreadJoins DEF Pthread!Next
  <2> QED BY <2>1, <2>2, <2>3 DEF Next
<1>3. Inv => PthreadSound
  BY DEF PthreadInv, PthreadAt, PthreadSound, Pthread!FrameOutlivesUse, Pthread!StackLifetime,
         Pthread!JoinReadsValue, Pthread!JoinableInTable
<1> HIDE DEF Inv
<1> QED BY <1>1, <1>2, <1>3, PTL DEF Spec

-----------------------------------------------------------------------------
(* Boot                                                                    *)

(* A processor has its CpuInfo from when it is started; the flags are set  *)
(* after what they stand for is there, and a processor that goes past one  *)
(* of them has waited for it.                                              *)
BootInv ==
  /\ Start!TypeOK
  /\ pc[Bsp] # "off"
  /\ \A c \in Cpus :
       /\ s1[c] # 0 <=> pc[c] # "off"
       /\ pc[c] \notin {"off", "bsp"} => s3[c] = s1[c]
       /\ pc[Bsp] \notin {"bsp", "aps"} => pc[c] # "off"
       /\ pc[Bsp] = "bsp" /\ c # Bsp => pc[c] = "off"
       /\ c # Bsp /\ pc[c] \notin {"off", "bsp", "apic"} => "APIC_INIT" \in s6 /\ s5[c][1] = "Periodic"
       /\ pc[c] \notin {"off", "bsp", "aps", "apic", "timer"} => s5[c] = <<"Periodic", "calibrated">>
       /\ c # Bsp /\ pc[c] = "run" => "START_SCHEDULE" \in s6
  /\ "APIC_INIT" \in s6 => pc[Bsp] \in {"task", "thread", "start", "run"}
  /\ pc[Bsp] \in {"timer", "task", "thread", "start", "run"} => s4 = "Periodic" /\ s5[Bsp] = <<"Periodic", "calibrated">>
  /\ "START_SCHEDULE" \in s6 => pc[Bsp] = "run"
  /\ pc[Bsp] \in {"start", "run"} => s7 = Cpus

BootLabel == {"off", "bsp", "aps", "apic", "timer", "task", "thread", "start", "run"}
Timers == {"OneShot", "Periodic"} \X {"none", "calibrated"}

(* Boot and Barrier count with the operator of FiniteSets.                 *)
LEMMA SameCardinality ==
  \A S : Start!Cardinality(S) = Cardinality(S) /\ Barrier!Cardinality(S) = Cardinality(S)
BY DEF Start!Cardinality, Barrier!Cardinality, Cardinality

(* The types in the form the steps below use them.                         *)
LEMMA BootTypes ==
  /\ Start!Cpu = Cpus
  /\ Start!TypeOK <=>
       /\ pc \in [Cpus -> BootLabel]
       /\ s1 \in [Cpus -> 0..Cardinality(Cpus)] /\ s3 \in [Cpus -> 0..Cardinality(Cpus)]
       /\ s2 \in BOOLEAN
       /\ s4 \in {"OneShot", "Periodic"}
       /\ s5 \in [Cpus -> Timers]
       /\ s6 \subseteq {"APIC_INIT", "SCHEDULER_INIT", "START_SCHEDULE"}
       /\ s7 \subseteq Cpus
<1>1. Start!Cpu = Cpus
  BY DEF Start!Cpu
<1>2. Start!Cardinality(Cpus) = Cardinality(Cpus)
  BY SameCardinality
<1> QED BY <1>1, <1>2, ZenonT(30) DEF Start!TypeOK, BootLabel, Timers

(* The same of the next state.                                             *)
LEMMA BootTypesNext ==
  Start!TypeOK' <=>
    /\ pc' \in [Cpus -> BootLabel]
    /\ s1' \in [Cpus -> 0..Cardinality(Cpus)] /\ s3' \in [Cpus -> 0..Cardinality(Cpus)]
    /\ s2' \in BOOLEAN
    /\ s4' \in {"OneShot", "Periodic"}
    /\ s5' \in [Cpus -> Timers]
    /\ s6' \subseteq {"APIC_INIT", "SCHEDULER_INIT", "START_SCHEDULE"}
    /\ s7' \subseteq Cpus
<1>1. Start!Cpu = Cpus
  BY DEF Start!Cpu
<1>2. Start!Cardinality(Cpus) = Cardinality(Cpus)
  BY SameCardinality
<1> QED BY <1>1, <1>2, ZenonT(30) DEF Start!TypeOK, BootLabel, Timers

(* The step that starts another processor.                                 *)
LEMMA BootStarts ==
  ASSUME BootInv, Start!init_ap
  PROVE  BootInv'
<1> USE SyncAssumption
<1>1. /\ pc \in [Cpus -> BootLabel] /\ s1 \in [Cpus -> 0..Cardinality(Cpus)] /\ Start!Cpu = Cpus
  BY BootTypes DEF BootInv
<1>2. PICK c \in Cpus :
        /\ c # Bsp /\ pc[c] = "off" /\ s1[c] = 0
        /\ s1' = [s1 EXCEPT ![c] = 1 + Cardinality({d \in Cpus : s1[d] # 0})]
        /\ pc' = [pc EXCEPT ![c] = "bsp"]
  BY <1>1, SameCardinality, ZenonT(30) DEF Start!init_ap, Start!Goto, Start!NoInfo
<1>3. /\ pc[Bsp] = "aps" /\ UNCHANGED <<s2, s3, s4, s5, s6, s7>>
  BY DEF Start!init_ap
<1> DEFINE Known == {d \in Cpus : s1[d] # 0}
           n == Cardinality(Known)
<1>4. Known \in SUBSET Cpus /\ Known # Cpus
  BY <1>2
<1>5. n \in Nat /\ Cardinality(Cpus) \in Nat /\ n <= Cardinality(Cpus) /\ n # Cardinality(Cpus)
  <2> HIDE DEF Known
  <2> QED BY <1>4, FS_Subset, FS_CardinalityType
<1>6. s1' = [s1 EXCEPT ![c] = 1 + n]
  BY <1>2
<1> HIDE DEF n
<1>7. s1' \in [Cpus -> 0..Cardinality(Cpus)] /\ s1'[c] # 0 /\ \A d \in Cpus \ {c} : s1'[d] = s1[d]
  BY <1>1, <1>5, <1>6
<1>8. pc' \in [Cpus -> BootLabel] /\ pc'[c] = "bsp" /\ \A d \in Cpus \ {c} : pc'[d] = pc[d]
  BY <1>1, <1>2 DEF BootLabel
<1>9. Start!TypeOK'
  <2>1. s2' \in BOOLEAN
    BY <1>3, BootTypes, ZenonT(30) DEF BootInv
  <2>2. /\ s3 \in [Cpus -> 0..Cardinality(Cpus)] /\ s4 \in {"OneShot", "Periodic"} /\ s5 \in [Cpus -> Timers]
        /\ s6 \subseteq {"APIC_INIT", "SCHEDULER_INIT", "START_SCHEDULE"} /\ s7 \subseteq Cpus
    BY BootTypes, ZenonT(30) DEF BootInv
  <2>3. /\ s3' \in [Cpus -> 0..Cardinality(Cpus)] /\ s4' \in {"OneShot", "Periodic"} /\ s5' \in [Cpus -> Timers]
        /\ s6' \subseteq {"APIC_INIT", "SCHEDULER_INIT", "START_SCHEDULE"} /\ s7' \subseteq Cpus
    BY ONLY <2>2, <1>3, SMTT(30)
  <2> QED BY ONLY <2>1, <2>3, <1>7, <1>8, BootTypesNext, ZenonT(30)
<1> QED BY <1>2, <1>3, <1>7, <1>8, <1>9 DEF BootInv

(* The other steps of the bootstrap processor.                             *)
LEMMA BootBsp ==
  ASSUME BootInv,
         \/ Start!init_bsp \/ Start!init_ap_done \/ Start!apic_init \/ Start!apic_init_done
         \/ Start!task_init \/ Start!new_kernel_thread \/ Start!start_schedule
  PROVE  BootInv'
<1> USE SyncAssumption DEF Start!Goto
<1>1. /\ pc \in [Cpus -> BootLabel] /\ s1 \in [Cpus -> 0..Cardinality(Cpus)]
      /\ s3 \in [Cpus -> 0..Cardinality(Cpus)] /\ s5 \in [Cpus -> Timers] /\ Start!Cpu = Cpus
      /\ s2 \in BOOLEAN /\ s4 \in {"OneShot", "Periodic"}
      /\ s6 \subseteq {"APIC_INIT", "SCHEDULER_INIT", "START_SCHEDULE"} /\ s7 \subseteq Cpus
  BY BootTypes DEF BootInv
<1>2. s2' \in BOOLEAN
  BY <1>1, ZenonT(30) DEF Start!init_bsp, Start!init_ap_done, Start!apic_init, Start!apic_init_done,
       Start!task_init, Start!new_kernel_thread, Start!start_schedule
<1>3. PICK label \in BootLabel \ {"off", "bsp"} : pc' = [pc EXCEPT ![Bsp] = label]
  BY DEF Start!init_bsp, Start!init_ap_done, Start!apic_init, Start!apic_init_done,
       Start!task_init, Start!new_kernel_thread, Start!start_schedule, BootLabel
<1>4. pc' \in [Cpus -> BootLabel] /\ pc'[Bsp] = label /\ \A d \in Cpus \ {Bsp} : pc'[d] = pc[d]
  BY <1>1, <1>3
<1>5. s1' = s1
  BY DEF Start!init_bsp, Start!init_ap_done, Start!apic_init, Start!apic_init_done,
       Start!task_init, Start!new_kernel_thread, Start!start_schedule
<1>6. \/ /\ pc[Bsp] = "bsp" /\ label = "aps" /\ s3' = [s3 EXCEPT ![Bsp] = s1[Bsp]]
         /\ UNCHANGED <<s4, s5, s6, s7>>
      \/ /\ pc[Bsp] = "aps" /\ label = "apic" /\ (\A c \in Cpus : c # Bsp => pc[c] # "off")
         /\ UNCHANGED <<s3, s4, s5, s6, s7>>
      \/ /\ pc[Bsp] = "apic" /\ label = "timer" /\ s4' = "Periodic"
         /\ s5' = [s5 EXCEPT ![Bsp] = <<"Periodic", "calibrated">>] /\ UNCHANGED <<s3, s6, s7>>
      \/ /\ pc[Bsp] = "timer" /\ label = "task" /\ s6' = s6 \cup {"APIC_INIT"} /\ UNCHANGED <<s3, s4, s5, s7>>
      \/ /\ pc[Bsp] = "task" /\ label = "thread" /\ s6' = s6 \cup {"SCHEDULER_INIT"} /\ UNCHANGED <<s3, s4, s5, s7>>
      \/ /\ pc[Bsp] = "thread" /\ label = "start" /\ s7' = {c \in Cpus : s1[c] # 0} /\ UNCHANGED <<s3, s4, s5, s6>>
      \/ /\ pc[Bsp] = "start" /\ label = "run" /\ s6' = s6 \cup {"START_SCHEDULE"} /\ UNCHANGED <<s3, s4, s5, s7>>
  <2>0. pc[Bsp] \in BootLabel /\ pc'[Bsp] = label
    BY <1>1, <1>4
  <2>1. CASE Start!init_bsp
    BY <2>0, <2>1, <1>1 DEF Start!init_bsp
  <2>2. CASE Start!init_ap_done
    BY <2>0, <2>2, <1>1 DEF Start!init_ap_done, Start!NoInfo
  <2>3. CASE Start!apic_init
    BY <2>0, <2>3, <1>1 DEF Start!apic_init
  <2>4. CASE Start!apic_init_done
    BY <2>0, <2>4, <1>1 DEF Start!apic_init_done
  <2>5. CASE Start!task_init
    BY <2>0, <2>5, <1>1 DEF Start!task_init
  <2>6. CASE Start!new_kernel_thread
    BY <2>0, <2>6, <1>1 DEF Start!new_kernel_thread, Start!NoInfo
  <2>7. CASE Start!start_schedule
    BY <2>0, <2>7, <1>1 DEF Start!start_schedule
  <2> QED BY <2>1, <2>2, <2>3, <2>4, <2>5, <2>6, <2>7, ZenonT(30)
<1>7. /\ s3' \in [Cpus -> 0..Cardinality(Cpus)]
      /\ \A d \in Cpus \ {Bsp} : s3'[d] = s3[d]
      /\ s3'[Bsp] = (IF label = "aps" THEN s1[Bsp] ELSE s3[Bsp])
  BY <1>1, <1>6
<1>8. /\ s5' \in [Cpus -> Timers]
      /\ \A d \in Cpus \ {Bsp} : s5'[d] = s5[d]
      /\ s5'[Bsp] = (IF label = "timer" THEN <<"Periodic", "calibrated">> ELSE s5[Bsp])
  <2>1. <<"Periodic", "calibrated">> \in Timers
    BY DEF Timers
  <2>2. CASE label = "timer"
    BY <2>1, <2>2, <1>1, <1>6
  <2>3. CASE label # "timer"
    BY <2>3, <1>1, <1>6
  <2> QED BY <2>2, <2>3
<1>9. /\ s4' \in {"OneShot", "Periodic"}
      /\ s6' \subseteq {"APIC_INIT", "SCHEDULER_INIT", "START_SCHEDULE"} /\ s7' \subseteq Cpus
  BY <1>1, <1>6, ZenonT(30)
<1>10. Start!TypeOK'
  BY <1>1, <1>2, <1>4, <1>5, <1>7, <1>8, <1>9, BootTypesNext
<1>11. /\ "APIC_INIT" \in s6' => label \in {"task", "thread", "start", "run"}
       /\ "START_SCHEDULE" \in s6' => label = "run"
       /\ s6 \subseteq s6'
       /\ label \in {"start", "run"} => s7' = Cpus
       /\ label \in {"timer", "task", "thread", "start", "run"} => s4' = "Periodic" /\ s5'[Bsp] = <<"Periodic", "calibrated">>
  <2>1. pc[Bsp] = "thread" => s7' = Cpus
    BY <1>6, ZenonT(30) DEF BootInv
  <2>2. pc[Bsp] \notin {"bsp", "aps", "apic"} => s4 = "Periodic" /\ s5[Bsp] = <<"Periodic", "calibrated">>
    BY <1>1 DEF BootInv, BootLabel
  <2>3. label \in {"timer", "task", "thread", "start", "run"} => s4' = "Periodic" /\ s5'[Bsp] = <<"Periodic", "calibrated">>
    BY <2>2, <1>6, <1>8
  <2> QED BY <2>1, <2>3, <1>1, <1>6 DEF BootInv
<1>12. ASSUME NEW c \in Cpus
       PROVE  /\ s1'[c] # 0 <=> pc'[c] # "off"
              /\ pc'[c] \notin {"off", "bsp"} => s3'[c] = s1'[c]
              /\ pc'[Bsp] \notin {"bsp", "aps"} => pc'[c] # "off"
              /\ pc'[Bsp] = "bsp" /\ c # Bsp => pc'[c] = "off"
              /\ c # Bsp /\ pc'[c] \notin {"off", "bsp", "apic"} => "APIC_INIT" \in s6' /\ s5'[c][1] = "Periodic"
              /\ pc'[c] \notin {"off", "bsp", "aps", "apic", "timer"} => s5'[c] = <<"Periodic", "calibrated">>
              /\ c # Bsp /\ pc'[c] = "run" => "START_SCHEDULE" \in s6'
  <2>1. CASE c = Bsp
    BY <2>1, <1>4, <1>5, <1>6, <1>7, <1>11, <1>8, ZenonT(30) DEF BootInv
  <2>2. CASE c # Bsp
    BY <2>2, <1>4, <1>5, <1>6, <1>7, <1>11, <1>8, ZenonT(30) DEF BootInv
  <2> QED BY <2>1, <2>2
<1>13. pc'[Bsp] # "off"
  BY <1>4
<1> QED BY ONLY <1>4, <1>10, <1>11, <1>12, <1>13, ZenonT(30) DEF BootInv

(* A step of another processor.                                            *)
LEMMA BootAp ==
  ASSUME BootInv, NEW c \in Cpus, c # Bsp, Start!ap_entry(c)
  PROVE  BootInv'
<1> USE SyncAssumption DEF Start!Goto
<1>1. /\ pc \in [Cpus -> BootLabel] /\ s1 \in [Cpus -> 0..Cardinality(Cpus)]
      /\ s3 \in [Cpus -> 0..Cardinality(Cpus)] /\ s5 \in [Cpus -> Timers] /\ s4 \in {"OneShot", "Periodic"}
  BY BootTypes DEF BootInv
<1>2. s1' = s1 /\ s2' = s2 /\ s4' = s4 /\ s6' = s6 /\ s7' = s7
  BY DEF Start!ap_entry, Start!ap_load, Start!ap_enable, Start!ap_set_timer, Start!ap_wait_scheduler, Start!ap_start
<1>3. PICK label \in BootLabel \ {"off", "bsp"} : pc' = [pc EXCEPT ![c] = label]
  BY DEF Start!ap_entry, Start!ap_load, Start!ap_enable, Start!ap_set_timer, Start!ap_wait_scheduler, Start!ap_start,
         BootLabel
<1>4. pc' \in [Cpus -> BootLabel] /\ pc'[c] = label /\ \A d \in Cpus \ {c} : pc'[d] = pc[d]
  BY <1>1, <1>3
<1>5. \/ pc[c] = "bsp" /\ label = "apic" /\ s3' = [s3 EXCEPT ![c] = s1[c]] /\ s5' = s5
      \/ /\ pc[c] = "apic" /\ label = "timer" /\ "APIC_INIT" \in s6 /\ s3' = s3
         /\ s5' = [s5 EXCEPT ![c] = <<s4, "none">>]
      \/ /\ pc[c] = "timer" /\ label = "task" /\ s3' = s3
         /\ s5' = [s5 EXCEPT ![c] = <<s5[c][1], s5[Bsp][2]>>]
      \/ pc[c] = "task" /\ label = "start" /\ s3' = s3 /\ s5' = s5
      \/ pc[c] = "start" /\ label = "run" /\ "START_SCHEDULE" \in s6 /\ s3' = s3 /\ s5' = s5
  BY <1>1, <1>3, <1>4
     DEF Start!ap_entry, Start!ap_load, Start!ap_enable, Start!ap_set_timer, Start!ap_wait_scheduler, Start!ap_start
<1>6. s5[c][1] \in {"OneShot", "Periodic"} /\ s5[Bsp][2] \in {"none", "calibrated"}
  BY <1>1 DEF Timers
<1>7. /\ s3' \in [Cpus -> 0..Cardinality(Cpus)] /\ s5' \in [Cpus -> Timers]
      /\ \A d \in Cpus \ {c} : s3'[d] = s3[d] /\ s5'[d] = s5[d]
      /\ s3'[c] = (IF label = "apic" THEN s1[c] ELSE s3[c])
      /\ s5'[c] = (IF label = "timer" THEN <<s4, "none">>
                   ELSE IF label = "task" THEN <<s5[c][1], s5[Bsp][2]>> ELSE s5[c])
  <2>1. <<s4, "none">> \in Timers /\ <<s5[c][1], s5[Bsp][2]>> \in Timers
    BY <1>1, <1>6 DEF Timers
  <2>2. /\ s3' \in [Cpus -> 0..Cardinality(Cpus)]
        /\ \A d \in Cpus \ {c} : s3'[d] = s3[d]
        /\ s3'[c] = (IF label = "apic" THEN s1[c] ELSE s3[c])
    BY <1>1, <1>5
  <2>3. s5' \in [Cpus -> Timers] /\ \A d \in Cpus \ {c} : s5'[d] = s5[d]
    BY <2>1, <1>1, <1>5
  <2>4. s5'[c] = (IF label = "timer" THEN <<s4, "none">>
                  ELSE IF label = "task" THEN <<s5[c][1], s5[Bsp][2]>> ELSE s5[c])
    BY <2>1, <1>1, <1>5
  <2> QED BY <2>2, <2>3, <2>4
<1>8. Start!TypeOK'
  <2>1. s2' \in BOOLEAN
    BY <1>2, BootTypes, ZenonT(30) DEF BootInv
  <2> QED BY <2>1, <1>2, <1>4, <1>7, BootTypes, BootTypesNext DEF BootInv
<1>9. label = "task" => s5'[c] = <<"Periodic", "calibrated">>
  <2>1. SUFFICES ASSUME label = "task" PROVE s5'[c] = <<"Periodic", "calibrated">>
    OBVIOUS
  <2>2. pc[c] = "timer" /\ s5'[c] = <<s5[c][1], s5[Bsp][2]>>
    BY <2>1, <1>5, <1>7
  <2>3. s5[c][1] = "Periodic" /\ s5[Bsp] = <<"Periodic", "calibrated">>
    BY <2>2 DEF BootInv
  <2> QED BY <2>2, <2>3
<1>10. ASSUME NEW d \in Cpus
       PROVE  /\ s1'[d] # 0 <=> pc'[d] # "off"
              /\ pc'[d] \notin {"off", "bsp"} => s3'[d] = s1'[d]
              /\ pc'[Bsp] \notin {"bsp", "aps"} => pc'[d] # "off"
              /\ pc'[Bsp] = "bsp" /\ d # Bsp => pc'[d] = "off"
              /\ d # Bsp /\ pc'[d] \notin {"off", "bsp", "apic"} => "APIC_INIT" \in s6' /\ s5'[d][1] = "Periodic"
              /\ pc'[d] \notin {"off", "bsp", "aps", "apic", "timer"} => s5'[d] = <<"Periodic", "calibrated">>
              /\ d # Bsp /\ pc'[d] = "run" => "START_SCHEDULE" \in s6'
  <2>1. CASE d = c
    <3>1. CASE label = "apic"
      BY <2>1, <3>1, <1>2, <1>4, <1>5, <1>7 DEF BootInv
    <3>2. CASE label = "timer"
      BY <2>1, <3>2, <1>2, <1>4, <1>5, <1>7 DEF BootInv
    <3>3. CASE label = "task"
      <4>1. pc[c] = "timer" /\ pc'[c] = "task" /\ s5'[c] = <<"Periodic", "calibrated">> /\ s3'[c] = s3[c]
        BY <3>3, <1>4, <1>5, <1>7, <1>9
      <4>2. c # Bsp /\ "APIC_INIT" \in s6 /\ s3[c] = s1[c] /\ s1[c] # 0 /\ pc[Bsp] # "bsp"
        BY <4>1, <1>2, ZenonT(30) DEF BootInv
      <4>3. s1' = s1 /\ s6' = s6 /\ pc'[Bsp] = pc[Bsp]
        BY <4>2, <1>2, <1>4, ZenonT(30)
      <4> QED BY ONLY <2>1, <4>1, <4>2, <4>3, SMTT(30)
    <3>4. CASE label = "start"
      BY <2>1, <3>4, <1>2, <1>4, <1>5, <1>7 DEF BootInv
    <3>5. CASE label = "run"
      BY <2>1, <3>5, <1>2, <1>4, <1>5, <1>7 DEF BootInv
    <3> QED BY <3>1, <3>2, <3>3, <3>4, <3>5, <1>5
  <2>2. CASE d # c
    BY <2>2, <1>2, <1>4, <1>7 DEF BootInv
  <2> QED BY <2>1, <2>2
<1> QED BY <1>2, <1>4, <1>7, <1>8, <1>10, ZenonT(30) DEF BootInv

(* However many processors there are and however they interleave, one that *)
(* takes timer interrupts is ready for them.                               *)
THEOREM BootIsReady == Spec => []ReadyToSchedule
<1> DEFINE Inv == kind = "boot" => BootInv
<1>1. Init => Inv
  <2> SUFFICES ASSUME Init, kind = "boot" PROVE BootInv
    OBVIOUS
  <2>1. Start!Init /\ Start!Cpu = Cpus
    BY BootTypes DEF Init
  <2>2. Cardinality(Cpus) \in Nat \ {0}
    BY SyncAssumption, FS_CardinalityType, FS_EmptySet
  <2>3. Start!TypeOK
    <3>1. <<"OneShot", "none">> \in Timers /\ 0 \in 0..Cardinality(Cpus) /\ 1 \in 0..Cardinality(Cpus)
      BY <2>2 DEF Timers
    <3>2. "bsp" \in BootLabel /\ "off" \in BootLabel
      BY DEF BootLabel
    <3>3. s5 \in [Cpus -> Timers]
      BY <2>1, <3>1 DEF Start!Init
    <3>4. pc \in [Cpus -> BootLabel]
      BY <2>1, <3>2 DEF Start!Init
    <3>5. s1 \in [Cpus -> 0..Cardinality(Cpus)] /\ s3 \in [Cpus -> 0..Cardinality(Cpus)]
      BY <2>1, <3>1 DEF Start!Init, Start!NoInfo
    <3> QED BY <2>1, <3>3, <3>4, <3>5, BootTypes, ZenonT(30) DEF Start!Init
  <2> QED BY <2>1, <2>3, SyncAssumption DEF BootInv, Start!Init, Start!NoInfo
<1>2. Inv /\ [Next]_vars => Inv'
  <2> SUFFICES ASSUME Inv, [Next]_vars, kind' = "boot" PROVE BootInv'
    OBVIOUS
  <2>1. kind = "boot" /\ BootInv
    BY DEF Next, vars
  <2>2. CASE UNCHANGED vars
    BY <2>1, <2>2 DEF vars, BootInv, Start!TypeOK
  <2>3. CASE Start!Next
    BY <2>1, <2>3, BootStarts, BootBsp, BootAp, BootTypes DEF Start!Next, Start!bsp_boot
  <2> QED BY <2>1, <2>2, <2>3 DEF Next
<1>3. Inv => ReadyToSchedule
  <2> SUFFICES ASSUME BootInv PROVE Start!TypeOK /\ Start!ReadyToSchedule
    BY DEF ReadyToSchedule
  <2>1. \A c \in Cpus : pc[c] = "run" => pc[Bsp] = "run" /\ s7 = Cpus
    BY DEF BootInv
  <2> QED BY <2>1, BootTypes DEF BootInv, Start!ReadyToSchedule, Start!NoInfo
<1> HIDE DEF Inv
<1> QED BY <1>1, <1>2, <1>3, PTL DEF Spec

-----------------------------------------------------------------------------
(* Barrier                                                                 *)

(* The mutex is held exactly at these labels.                              *)
BarrierHeld == {"check", "wait_load", "wait_store", "wait_unlock", "wake_load", "wake_store", "futex_wake"}

Notifies(t) == pc[t] \in {"wake_load", "wake_store", "futex_wake"}

(* The rounds that all threads have entered: the thread that entered last  *)
(* has begun the next generation before it returns NotifiedAll.            *)
Round == IF \E t \in Thread : Notifies(t) THEN s10 + 1 ELSE s10

(* With R rounds complete, the count is that of the threads in the next    *)
(* one, the generation is R as far as the word shows it, a thread inside   *)
(* has the generation of the round it is in, and none has left round R + 1.*)
BarrierAt(r) ==
  /\ r \in Nat /\ r <= MaxRounds
  /\ s6 = r % BarrierWord
  /\ s5 = Cardinality({t \in Thread : s8[t] = r + 1})
  /\ \A t \in Thread :
       /\ s8[t] = r \/ s8[t] = r + 1
       /\ pc[t] = "outside" => s9[t] = s8[t]
       /\ pc[t] # "outside" => s9[t] + 1 = s8[t] /\ s7[t] = s9[t] % BarrierWord
       /\ s9[t] <= r
       /\ Notifies(t) => s8[t] = r

BarrierInv ==
  /\ Barrier!TypeOK
  /\ \A t \in Thread : s3 = t <=> pc[t] \in BarrierHeld
  /\ \A t \in asleep : pc[t] = "sleep"
  /\ BarrierAt(Round)

BarrierLabel == {"outside", "check"} \cup Barrier!CondLabel
Words == 0..(BarrierWord - 1)

(* The types in the form the steps below use them.                         *)
LEMMA BarrierTypes ==
  Barrier!TypeOK <=>
    /\ s1 \in Words /\ s2 \in Words /\ s3 \in Thread \cup {Nobody}
    /\ s4 \in [Thread -> Words] /\ asleep \subseteq Thread
    /\ pc \in [Thread -> BarrierLabel]
    /\ s5 \in 0..(Cardinality(Thread) - 1)
    /\ s6 \in Words /\ s7 \in [Thread -> Words]
    /\ s8 \in [Thread -> 0..MaxRounds] /\ s9 \in [Thread -> 0..MaxRounds] /\ s10 \in 0..MaxRounds
<1>1. Barrier!Cardinality(Thread) = Cardinality(Thread)
  BY SameCardinality
<1> QED BY <1>1, ZenonT(30) DEF Barrier!TypeOK, Barrier!CondTypeOK, Barrier!original_count, BarrierLabel, Words

(* The same of the next state.                                             *)
LEMMA BarrierTypesNext ==
  Barrier!TypeOK' <=>
    /\ s1' \in Words /\ s2' \in Words /\ s3' \in Thread \cup {Nobody}
    /\ s4' \in [Thread -> Words] /\ asleep' \subseteq Thread
    /\ pc' \in [Thread -> BarrierLabel]
    /\ s5' \in 0..(Cardinality(Thread) - 1)
    /\ s6' \in Words /\ s7' \in [Thread -> Words]
    /\ s8' \in [Thread -> 0..MaxRounds] /\ s9' \in [Thread -> 0..MaxRounds] /\ s10' \in 0..MaxRounds
<1>1. Barrier!Cardinality(Thread) = Cardinality(Thread)
  BY SameCardinality
<1> QED BY <1>1, ZenonT(30) DEF Barrier!TypeOK, Barrier!CondTypeOK, Barrier!original_count, BarrierLabel, Words

(* Where a thread holds the mutex nobody else notifies.                    *)
LEMMA RoundOf ==
  ASSUME BarrierInv
  PROVE  /\ s3 = Nobody => Round = s10
         /\ \A t \in Thread : s3 = t => Round = IF Notifies(t) THEN s10 + 1 ELSE s10
BY SyncAssumption DEF BarrierInv, BarrierHeld, Round, Notifies

(* The steps of a thread inside the condition variable, where neither the  *)
(* barrier nor its rounds change.                                          *)
LEMMA BarrierWaits ==
  ASSUME BarrierInv, NEW t \in Thread, UNCHANGED <<s5, s6, s7, s8, s9, s10>>,
         \/ Barrier!wait_step(t, "check") \/ Barrier!cond_spurious(t)
         \/ Barrier!wake_load(t) \/ Barrier!wake_store(t)
  PROVE  BarrierInv'
<1> USE SyncAssumption DEF Barrier!Goto
<1>1. /\ s1 \in Words /\ s2 \in Words /\ s3 \in Thread \cup {Nobody}
      /\ s4 \in [Thread -> Words] /\ asleep \subseteq Thread
      /\ pc \in [Thread -> BarrierLabel]
  BY BarrierTypes DEF BarrierInv
<1>2. PICK label \in BarrierLabel : pc' = [pc EXCEPT ![t] = label]
  <2>1. CASE Barrier!cond_spurious(t)
    <3>1. pc' = [pc EXCEPT ![t] = pc[t]] /\ pc[t] \in BarrierLabel
      BY <1>1, <2>1 DEF Barrier!cond_spurious, Barrier!spurious
    <3> QED BY <3>1, ZenonT(30)
  <2>2. CASE ~Barrier!cond_spurious(t)
    BY <2>2 DEF Barrier!wait_step, Barrier!wait_load, Barrier!wait_store, Barrier!wait_unlock, Barrier!wait_sleep,
      Barrier!relock, Barrier!futex_wait, Barrier!wait_returns, Barrier!wake_load, Barrier!wake_store,
      BarrierLabel, Barrier!CondLabel
  <2> QED BY <2>1, <2>2
<1>3. pc' \in [Thread -> BarrierLabel] /\ pc'[t] = label /\ \A u \in Thread \ {t} : pc'[u] = pc[u]
  BY <1>1, <1>2
<1>4. s1' \in Words /\ s2' \in Words /\ s4' \in [Thread -> Words] /\ asleep' \subseteq Thread
  <2>1. (s4[t] + 1) % BarrierWord \in Words
    <3>1. s4[t] + 1 \in Int /\ BarrierWord \in Nat \ {0}
      BY <1>1 DEF Words
    <3> QED BY ONLY <3>1, Division, ZenonT(30) DEF Words
  <2>2. CASE Barrier!wake_store(t)
    BY <1>1, <2>1, <2>2 DEF Barrier!wake_store
  <2>3. CASE Barrier!wake_load(t)
    BY <1>1, <2>3 DEF Barrier!wake_load
  <2>4. CASE Barrier!cond_spurious(t)
    BY <1>1, <2>4 DEF Barrier!cond_spurious, Barrier!spurious
  <2>5. CASE Barrier!wait_step(t, "check")
    BY <1>1, <2>5 DEF Barrier!wait_step, Barrier!wait_load, Barrier!wait_store, Barrier!wait_unlock, Barrier!wait_sleep,
      Barrier!relock, Barrier!futex_wait, Barrier!wait_returns
  <2> QED BY <2>2, <2>3, <2>4, <2>5
<1>5. /\ pc[t] # "outside" /\ label # "outside"
      /\ label \in {"wake_load", "wake_store", "futex_wake"} <=> pc[t] \in {"wake_load", "wake_store", "futex_wake"}
      /\ \/ s3' = s3 /\ (label \in BarrierHeld <=> pc[t] \in BarrierHeld)
         \/ s3' = Nobody /\ pc[t] \in BarrierHeld /\ label \notin BarrierHeld
         \/ s3 = Nobody /\ s3' = t /\ label \in BarrierHeld
  <2>1. \A u \in asleep : pc[u] = "sleep"
    BY DEF BarrierInv
  <2> QED BY <2>1, <1>1, <1>2, <1>3
     DEF Barrier!wait_step, Barrier!wait_load, Barrier!wait_store, Barrier!wait_unlock, Barrier!wait_sleep,
      Barrier!relock, Barrier!futex_wait, Barrier!wait_returns, Barrier!wake_load, Barrier!wake_store,
      Barrier!cond_spurious, Barrier!spurious, BarrierHeld
<1>6. Barrier!TypeOK'
  BY <1>1, <1>3, <1>4, <1>5, BarrierTypes, BarrierTypesNext DEF BarrierInv
<1>7. \A u \in Thread : s3' = u <=> pc'[u] \in BarrierHeld
  BY <1>1, <1>3, <1>5 DEF BarrierInv
<1>8. \A u \in Thread : Notifies(u)' <=> Notifies(u)
  BY <1>3, <1>5 DEF Notifies
<1>9. Round' = Round
  BY <1>8 DEF Round
<1>10. \A u \in Thread : pc'[u] = "outside" <=> pc[u] = "outside"
  BY <1>3, <1>5
<1>11. ASSUME NEW r, BarrierAt(r) PROVE BarrierAt(r)'
  BY <1>8, <1>10, <1>11 DEF BarrierAt
<1>12. \A u \in asleep' : pc'[u] = "sleep"
  <2>1. \A u \in asleep : pc[u] = "sleep"
    BY DEF BarrierInv
  <2>2. \/ asleep' = asleep /\ t \notin asleep
        \/ asleep' = asleep \cup {t} /\ label = "sleep"
        \/ asleep' = asleep \ {t}
    BY <2>1, <1>1, <1>2, <1>3
       DEF Barrier!wait_step, Barrier!wait_load, Barrier!wait_store, Barrier!wait_unlock, Barrier!wait_sleep,
        Barrier!relock, Barrier!futex_wait, Barrier!wait_returns, Barrier!wake_load, Barrier!wake_store,
        Barrier!cond_spurious, Barrier!spurious
  <2> QED BY <2>1, <2>2, <1>1, <1>3, SMTT(30)
<1> QED BY <1>6, <1>7, <1>9, <1>11, <1>12 DEF BarrierInv

(* A thread calls wait.  The last one to arrive finds that all the others  *)
(* are counted, and a new round is complete.                               *)
LEMMA BarrierEnters ==
  ASSUME BarrierInv, NEW t \in Thread, Barrier!wait(t)
  PROVE  BarrierInv'
<1> USE SyncAssumption DEF Barrier!Goto
<1>0. PICK r : r = Round
  OBVIOUS
<1> DEFINE In == {u \in Thread : s8[u] = r + 1}
           n == Cardinality(Thread)
<1>1. /\ s3 \in Thread \cup {Nobody} /\ pc \in [Thread -> BarrierLabel]
      /\ s7 \in [Thread -> Words] /\ s6 \in Words
      /\ s8 \in [Thread -> 0..MaxRounds] /\ s9 \in [Thread -> 0..MaxRounds]
  BY BarrierTypes DEF BarrierInv
<1>2. BarrierAt(r) /\ r = s10
  BY <1>0, RoundOf DEF BarrierInv, Barrier!wait
<1>3. /\ pc[t] = "outside" /\ s3 = Nobody /\ s8[t] < MaxRounds
      /\ s8' = [s8 EXCEPT ![t] = @ + 1] /\ s7' = [s7 EXCEPT ![t] = s6] /\ s3' = t
      /\ UNCHANGED <<s9, s10, s1, s2, s4, asleep>>
      /\ \/ s5 + 1 = n /\ s6' = (s6 + 1) % BarrierWord /\ s5' = 0 /\ pc' = [pc EXCEPT ![t] = "wake_load"]
         \/ s5 + 1 # n /\ s5' = s5 + 1 /\ pc' = [pc EXCEPT ![t] = "check"] /\ s6' = s6
  BY SameCardinality DEF Barrier!wait, Barrier!original_count
<1>4. r \in Nat /\ r <= MaxRounds /\ s8[t] = r /\ s9[t] = r
  BY <1>1, <1>2, <1>3, SMTT(30) DEF BarrierAt
<1>5. s8'[t] = r + 1 /\ \A u \in Thread \ {t} : s8'[u] = s8[u]
  BY <1>1, <1>3, <1>4
<1>6. s7'[t] = s9[t] % BarrierWord /\ \A u \in Thread \ {t} : s7'[u] = s7[u]
  BY <1>1, <1>2, <1>3, <1>4 DEF BarrierAt
<1>7. In \in SUBSET Thread /\ t \notin In /\ s5 = Cardinality(In)
  <2>1. r # r + 1
    BY ONLY <1>4, SMTT(30)
  <2>2. s5 = Cardinality(In)
    BY <1>2, ZenonT(30) DEF BarrierAt
  <2> QED BY ONLY <1>4, <2>1, <2>2, ZenonT(30)
<1>8. /\ IsFiniteSet(In) /\ n \in Nat /\ s5 \in Nat
      /\ Cardinality(In \cup {t}) = s5 + 1 /\ s5 + 1 <= n
      /\ s5 + 1 = n => In \cup {t} = Thread
  <2> HIDE DEF In
  <2>1. IsFiniteSet(In) /\ n \in Nat
    BY <1>7, FS_Subset, FS_CardinalityType
  <2>2. Cardinality(In \cup {t}) = s5 + 1 /\ s5 \in Nat
    BY <1>7, <2>1, FS_AddElement, FS_CardinalityType
  <2>3. In \cup {t} \in SUBSET Thread
    BY <1>7
  <2>4. /\ Cardinality(In \cup {t}) <= n
        /\ n = Cardinality(In \cup {t}) => Thread = In \cup {t}
    BY <2>3, FS_Subset
  <2> QED BY <2>1, <2>2, <2>4
<1>9. {u \in Thread : s8'[u] = r + 1} = In \cup {t}
  BY <1>5, <1>7
<1>10. /\ pc' \in [Thread -> BarrierLabel] /\ s7' \in [Thread -> Words] /\ s8' \in [Thread -> 0..MaxRounds]
  <2>1. {"wake_load", "check"} \subseteq BarrierLabel
    BY DEF BarrierLabel, Barrier!CondLabel
  <2>2. s8[t] + 1 \in 0..MaxRounds
    BY <1>3, <1>4
  <2> QED BY <2>1, <2>2, <1>1, <1>3
<1>11. \A u \in asleep' : pc'[u] = "sleep"
  <2>1. asleep \subseteq Thread /\ \A u \in asleep : pc[u] = "sleep"
    BY BarrierTypes DEF BarrierInv
  <2> QED BY <2>1, <1>1, <1>3
<1>12. \A u \in Thread \ {t} : pc'[u] = pc[u] /\ pc[u] \notin BarrierHeld /\ ~Notifies(u)'
  BY <1>1, <1>3 DEF BarrierInv, Notifies, BarrierHeld
<1>13. \A u \in Thread : s3' = u <=> pc'[u] \in BarrierHeld
  BY <1>1, <1>3, <1>12 DEF BarrierHeld
<1> HIDE DEF n, In
<1>14. CASE s5 + 1 = n
  <2>1. pc'[t] = "wake_load" /\ s5' = 0 /\ Round' = r + 1
    BY <1>1, <1>2, <1>3, <1>14 DEF Round, Notifies
  <2>2. \A u \in Thread : s8'[u] = r + 1
    BY <1>5, <1>8, <1>9, <1>14
  <2>3. s6' = (r + 1) % BarrierWord
    <3>1. s6 = r % BarrierWord /\ s6' = (s6 + 1) % BarrierWord /\ BarrierWord \in Nat \ {0}
      BY <1>2, <1>3, <1>14 DEF BarrierAt
    <3> QED BY ONLY <3>1, <1>4, WrapSuccessor, ZenonT(30)
  <2>4. Cardinality({u \in Thread : s8'[u] = (r + 1) + 1}) = 0
    <3>1. {u \in Thread : s8'[u] = (r + 1) + 1} = {}
      BY <2>2, <1>4
    <3> QED BY <3>1, FS_EmptySet
  <2>5. s6' \in Words /\ s5' \in 0..(n - 1)
    <3>1. r + 1 \in Int /\ BarrierWord \in Nat \ {0}
      BY <1>4
    <3>2. s6' \in Words
      BY ONLY <2>3, <3>1, Division, ZenonT(30) DEF Words
    <3> QED BY <2>1, <3>2, <1>8, <1>14
  <2>6. Barrier!TypeOK'
    BY <2>5, <1>3, <1>10, BarrierTypes, BarrierTypesNext DEF BarrierInv, n
  <2>7. ASSUME NEW u \in Thread
        PROVE  /\ pc'[u] = "outside" => s9'[u] = s8'[u]
               /\ pc'[u] # "outside" => s9'[u] + 1 = s8'[u] /\ s7'[u] = s9'[u] % BarrierWord
               /\ s9'[u] <= r + 1
    <3>1. CASE u = t
      BY <3>1, <2>1, <1>3, <1>4, <1>5, <1>6
    <3>2. CASE u # t
      <4>1. s9[u] \in Nat /\ s9[u] <= r
        BY <1>1, <1>2 DEF BarrierAt
      <4>2. /\ pc[u] = "outside" => s9[u] = s8[u]
            /\ pc[u] # "outside" => s9[u] + 1 = s8[u] /\ s7[u] = s9[u] % BarrierWord
        BY <1>2 DEF BarrierAt
      <4>3. pc'[u] = pc[u] /\ s9'[u] = s9[u] /\ s8'[u] = s8[u] /\ s7'[u] = s7[u]
        BY <3>2, <1>3, <1>5, <1>6, <1>12
      <4>4. s9[u] <= r + 1
        BY ONLY <4>1, <1>4, SMTT(30)
      <4> QED BY ONLY <4>2, <4>3, <4>4, ZenonT(30)
    <3> QED BY <3>1, <3>2, ZenonT(30)
  <2>8. r + 1 \in Nat /\ r + 1 <= MaxRounds
    BY <1>3, <1>4
  <2>9. BarrierAt(r + 1)'
    BY <2>1, <2>2, <2>3, <2>4, <2>7, <2>8 DEF BarrierAt
  <2> QED BY <2>1, <2>6, <2>9, <1>11, <1>13 DEF BarrierInv
<1>15. CASE s5 + 1 # n
  <2>1. pc'[t] = "check" /\ s5' = s5 + 1 /\ s6' = s6 /\ Round' = r
    BY <1>1, <1>2, <1>3, <1>12, <1>15 DEF Round, Notifies
  <2>2. s5' \in 0..(n - 1)
    BY <2>1, <1>8, <1>15
  <2>3. Barrier!TypeOK'
    BY <2>1, <2>2, <1>1, <1>3, <1>10, BarrierTypes, BarrierTypesNext DEF BarrierInv, n
  <2>4. s5' = Cardinality({u \in Thread : s8'[u] = r + 1})
    BY <2>1, <1>8, <1>9
  <2>5. ASSUME NEW u \in Thread
        PROVE  /\ s8'[u] = r \/ s8'[u] = r + 1
               /\ pc'[u] = "outside" => s9'[u] = s8'[u]
               /\ pc'[u] # "outside" => s9'[u] + 1 = s8'[u] /\ s7'[u] = s9'[u] % BarrierWord
               /\ s9'[u] <= r
               /\ ~Notifies(u)'
    <3>1. CASE u = t
      BY <3>1, <2>1, <1>3, <1>4, <1>5, <1>6 DEF Notifies
    <3>2. CASE u # t
      BY <3>2, <1>2, <1>3, <1>4, <1>5, <1>6, <1>12 DEF BarrierAt
    <3> QED BY <3>1, <3>2
  <2>6. BarrierAt(r)'
    BY <2>1, <2>4, <2>5, <1>2, <1>4, ZenonT(30) DEF BarrierAt
  <2> QED BY <2>1, <2>3, <2>6, <1>11, <1>13, ZenonT(30) DEF BarrierInv
<1> QED BY <1>14, <1>15

(* A thread with the mutex looks at the generation, and goes to wait or    *)
(* leaves; or the last thread returns from its broadcast.                  *)
LEMMA BarrierLeaves ==
  ASSUME BarrierInv, NEW t \in Thread,
         \/ Barrier!check(t)
         \/ /\ Barrier!wake_call(t, "outside") /\ s9' = [s9 EXCEPT ![t] = @ + 1] /\ s10' = s10 + 1
            /\ UNCHANGED <<s5, s6, s7, s8>>
  PROVE  BarrierInv'
<1> USE SyncAssumption DEF Barrier!Goto
<1>0. PICK r : r = Round
  OBVIOUS
<1>1. /\ s3 \in Thread \cup {Nobody} /\ pc \in [Thread -> BarrierLabel] /\ asleep \subseteq Thread
      /\ s8 \in [Thread -> 0..MaxRounds] /\ s9 \in [Thread -> 0..MaxRounds] /\ s10 \in 0..MaxRounds
  BY BarrierTypes DEF BarrierInv
<1>2. BarrierAt(r)
  BY <1>0 DEF BarrierInv
<1>3. /\ s5' = s5 /\ s6' = s6 /\ s7' = s7 /\ s8' = s8 /\ s1' = s1 /\ s2' = s2 /\ s4' = s4
      /\ \/ /\ pc[t] = "check" /\ s6 = s7[t] /\ pc' = [pc EXCEPT ![t] = "wait_load"]
            /\ s3' = s3 /\ s9' = s9 /\ s10' = s10 /\ asleep' = asleep
         \/ /\ pc[t] = "check" /\ s6 # s7[t] /\ pc' = [pc EXCEPT ![t] = "outside"]
            /\ s3' = Nobody /\ s9' = [s9 EXCEPT ![t] = @ + 1] /\ s10' = s10 /\ asleep' = asleep
         \/ /\ pc[t] = "futex_wake" /\ pc' = [pc EXCEPT ![t] = "outside"]
            /\ s3' = (IF s3 = t THEN Nobody ELSE s3)
            /\ s9' = [s9 EXCEPT ![t] = @ + 1] /\ s10' = s10 + 1 /\ asleep' = {}
  BY DEF Barrier!check, Barrier!wake_call, Barrier!futex_wake
<1>4. s3 = t /\ \A u \in Thread \ {t} : pc[u] \notin BarrierHeld /\ pc'[u] = pc[u] /\ s9'[u] = s9[u]
  BY <1>1, <1>3 DEF BarrierInv, BarrierHeld
<1>5. r \in Nat /\ r <= MaxRounds /\ r = (IF pc[t] = "check" THEN s10 ELSE s10 + 1)
  BY <1>0, <1>2, <1>3, <1>4, RoundOf, ZenonT(30) DEF BarrierAt, Notifies
<1>6. \A u \in Thread : ~Notifies(u)'
  BY <1>1, <1>3, <1>4 DEF Notifies, BarrierHeld
<1>7. Round' = r
  BY <1>3, <1>5, <1>6 DEF Round
<1>8. s9[t] + 1 = s8[t] /\ s7[t] = s9[t] % BarrierWord /\ s9[t] \in Nat
  <2>1. pc[t] # "outside"
    BY <1>3
  <2>2. s9[t] \in Nat
    BY ONLY <1>1, t \in Thread, SyncAssumption, SMTT(30)
  <2> QED BY ONLY <2>1, <2>2, <1>2, t \in Thread, ZenonT(30) DEF BarrierAt
<1>9. pc'[t] = "outside" => s9'[t] = s8[t] /\ s8[t] = r
  <2>1. SUFFICES ASSUME pc'[t] = "outside" PROVE s9'[t] = s8[t] /\ s8[t] = r
    OBVIOUS
  <2>2. s9'[t] = s9[t] + 1
    BY <2>1, <1>1, <1>3
  <2>3. CASE pc[t] = "check"
    <3>1. s6 # s7[t] /\ s6 = r % BarrierWord /\ (s8[t] = r \/ s8[t] = r + 1)
      BY <2>1, <2>3, <1>1, <1>2, <1>3 DEF BarrierAt
    <3>2. s9[t] # r
      BY <3>1, <1>8, ZenonT(30)
    <3>3. r \in Nat
      BY ONLY <1>5, SMTT(30)
    <3>4. s8[t] # r + 1
      BY ONLY <3>2, <3>3, <1>8, SMTT(30)
    <3> QED BY ONLY <2>2, <3>1, <3>4, <1>8, ZenonT(30)
  <2>4. CASE pc[t] = "futex_wake"
    <3>1. Notifies(t)
      BY ONLY <2>4, ZenonT(30) DEF Notifies
    <3>2. s8[t] = r
      BY ONLY <3>1, <1>2, t \in Thread, ZenonT(30) DEF BarrierAt
    <3> QED BY ONLY <2>2, <3>2, <1>8, ZenonT(30)
  <2> QED BY <2>3, <2>4, <1>3
<1>10. pc'[t] # "outside" => pc'[t] = "wait_load" /\ s9'[t] = s9[t] /\ pc[t] = "check" /\ s3' = t
  BY <1>1, <1>3, <1>4
<1>11. s9' \in [Thread -> 0..MaxRounds] /\ s10' \in 0..MaxRounds /\ pc' \in [Thread -> BarrierLabel]
  <2>1. {"wait_load", "outside"} \subseteq BarrierLabel
    BY DEF BarrierLabel, Barrier!CondLabel
  <2>2. pc' \in [Thread -> BarrierLabel]
    BY <2>1, <1>1, <1>3
  <2>3. s10' \in 0..MaxRounds
    BY <1>1, <1>3, <1>5
  <2>4. CASE pc'[t] = "outside"
    <3>1. s9[t] + 1 \in 0..MaxRounds
      <4>1. s8[t] \in 0..MaxRounds
        BY ONLY <1>1, t \in Thread, SMTT(30)
      <4> QED BY ONLY <4>1, <1>8, SMTT(30)
    <3>2. s9' = [s9 EXCEPT ![t] = s9[t] + 1]
      BY <2>4, <1>1, <1>3
    <3> QED BY <2>2, <2>3, <3>1, <3>2, <1>1
  <2>5. CASE pc'[t] # "outside"
    BY <2>2, <2>3, <2>5, <1>1, <1>3
  <2> QED BY <2>4, <2>5
<1>12. s3' \in Thread \cup {Nobody} /\ asleep' \subseteq Thread
  BY <1>1, <1>3
<1>13. Barrier!TypeOK'
  BY <1>3, <1>11, <1>12, BarrierTypes, BarrierTypesNext DEF BarrierInv
<1>14. \A u \in Thread : s3' = u <=> pc'[u] \in BarrierHeld
  BY <1>1, <1>3, <1>4 DEF BarrierHeld
<1>15. \A u \in asleep' : pc'[u] = "sleep"
  <2>1. \A u \in asleep : pc[u] = "sleep"
    BY DEF BarrierInv
  <2> QED BY <2>1, <1>1, <1>3
<1>16. ASSUME NEW u \in Thread
       PROVE  /\ s8'[u] = r \/ s8'[u] = r + 1
              /\ pc'[u] = "outside" => s9'[u] = s8'[u]
              /\ pc'[u] # "outside" => s9'[u] + 1 = s8'[u] /\ s7'[u] = s9'[u] % BarrierWord
              /\ s9'[u] <= r
  <2>1. CASE u = t
    <3>1. (s8[t] = r \/ s8[t] = r + 1) /\ s9[t] <= r
      BY ONLY <1>2, t \in Thread, ZenonT(30) DEF BarrierAt
    <3>2. s8'[t] = s8[t] /\ s7'[t] = s7[t]
      BY ONLY <1>3, ZenonT(30)
    <3>3. CASE pc'[t] = "outside"
      <4>1. s9'[t] = s8[t] /\ s8[t] = r /\ r <= r
        <5>1. r \in Nat
          BY ONLY <1>5, SMTT(30)
        <5>2. r <= r
          BY ONLY <5>1, SMTT(30)
        <5> QED BY ONLY <5>2, <3>3, <1>9, ZenonT(30)
      <4> QED BY ONLY <2>1, <3>2, <3>3, <4>1, ZenonT(30)
    <3>4. CASE pc'[t] # "outside"
      BY ONLY <2>1, <3>1, <3>2, <3>4, <1>8, <1>10, ZenonT(30)
    <3> QED BY ONLY <3>3, <3>4, SMTT(30)
  <2>2. CASE u # t
    BY <2>2, <1>2, <1>3, <1>4, ZenonT(30) DEF BarrierAt
  <2> QED BY <2>1, <2>2
<1>17. BarrierAt(r)'
  BY <1>2, <1>3, <1>5, <1>6, <1>16, ZenonT(30) DEF BarrierAt
<1> QED BY <1>7, <1>13, <1>14, <1>15, <1>17, ZenonT(30) DEF BarrierInv

(* A barrier releases nobody from a round before all threads have entered  *)
(* it and has one serial thread a round, for any number of threads and     *)
(* rounds and wherever the generation wraps.                               *)
THEOREM BarrierIsSound == Spec => []BarrierSound
<1> DEFINE Inv == kind = "barrier" => BarrierInv
<1>1. Init => Inv
  <2> SUFFICES ASSUME Init, kind = "barrier" PROVE BarrierInv
    OBVIOUS
  <2>1. Barrier!Init
    BY DEF Init
  <2>2. Cardinality(Thread) \in Nat \ {0}
    BY SyncAssumption, FS_CardinalityType, FS_EmptySet
  <2>3. 0 \in Words /\ 0 \in 0..MaxRounds /\ "outside" \in BarrierLabel
    BY SyncAssumption DEF Words, BarrierLabel
  <2>4. Barrier!TypeOK
    <3>1. pc \in [Thread -> BarrierLabel] /\ s4 \in [Thread -> Words] /\ s7 \in [Thread -> Words]
      BY <2>1, <2>3 DEF Barrier!Init, Barrier!CondInit
    <3>2. s8 \in [Thread -> 0..MaxRounds] /\ s9 \in [Thread -> 0..MaxRounds]
      BY <2>1, <2>3 DEF Barrier!Init
    <3>3. s5 \in 0..(Cardinality(Thread) - 1)
      BY <2>1, <2>2 DEF Barrier!Init
    <3> QED BY <2>1, <2>3, <3>1, <3>2, <3>3, BarrierTypes DEF Barrier!Init, Barrier!CondInit
  <2>5. Round = 0
    BY <2>1 DEF Barrier!Init, Round, Notifies
  <2>6. Cardinality({t \in Thread : s8[t] = 0 + 1}) = 0
    <3>1. {t \in Thread : s8[t] = 0 + 1} = {}
      BY <2>1 DEF Barrier!Init
    <3> QED BY <3>1, FS_EmptySet
  <2>7. 0 % BarrierWord = 0
    BY SyncAssumption
  <2>8. BarrierAt(0)
    BY <2>1, <2>6, <2>7, SyncAssumption DEF Barrier!Init, BarrierAt, Notifies
  <2> QED BY <2>1, <2>4, <2>5, <2>8, SyncAssumption DEF Barrier!Init, Barrier!CondInit, BarrierInv, BarrierHeld
<1>2. Inv /\ [Next]_vars => Inv'
  <2> SUFFICES ASSUME Inv, [Next]_vars, kind' = "barrier" PROVE BarrierInv'
    OBVIOUS
  <2>1. kind = "barrier" /\ BarrierInv
    BY DEF Next, vars
  <2>2. CASE UNCHANGED vars
    <3>1. ASSUME NEW r PROVE BarrierAt(r)' <=> BarrierAt(r)
      BY <2>2 DEF vars, BarrierAt, Notifies
    <3>2. Round' = Round
      BY <2>2 DEF vars, Round, Notifies
    <3>3. Barrier!TypeOK'
      BY <2>1, <2>2, BarrierTypes, BarrierTypesNext DEF vars, BarrierInv
    <3> QED BY <2>1, <2>2, <3>1, <3>2, <3>3 DEF vars, BarrierInv
  <2>3. CASE Barrier!Next
    <3>1. PICK t \in Thread :
            Barrier!Step(t) \/ (Barrier!cond_spurious(t) /\ UNCHANGED <<s5, s6, s7, s8, s9, s10>>)
      BY <2>3 DEF Barrier!Next, Barrier!barrierVars
    <3> QED BY <2>1, <3>1, BarrierEnters, BarrierLeaves, BarrierWaits
            DEF Barrier!Step, Barrier!notify, Barrier!barrierVars
  <2> QED BY <2>1, <2>2, <2>3 DEF Next
<1>3. Inv => BarrierSound
  <2> SUFFICES ASSUME BarrierInv PROVE Barrier!TypeOK /\ Barrier!NobodyPassesAlone /\ Barrier!OneSerialThread
    BY DEF BarrierSound
  <2>1. PICK r : r = Round
    OBVIOUS
  <2>2. BarrierAt(r) /\ r \in Nat
    BY <2>1, ZenonT(30) DEF BarrierInv, BarrierAt
  <2>3. \A t \in Thread : s8[t] \in Nat /\ s9[t] \in Nat
    BY BarrierTypes DEF BarrierInv
  <2>4. Barrier!NobodyPassesAlone
    BY <2>2, <2>3 DEF BarrierAt, Barrier!NobodyPassesAlone
  <2>5. Barrier!OneSerialThread
    <3> SUFFICES ASSUME \A t \in Thread : s9[t] = s8[t], NEW t \in Thread PROVE s10 = s9[t]
      BY DEF Barrier!OneSerialThread
    <3>1. \A u \in Thread : pc[u] = "outside"
      BY <2>2, <2>3 DEF BarrierAt
    <3>2. r = s10
      BY <2>1, <3>1 DEF Round, Notifies
    <3> QED BY <2>2, <2>3, <3>2 DEF BarrierAt
  <2> QED BY <2>4, <2>5 DEF BarrierInv
<1> HIDE DEF Inv
<1> QED BY <1>1, <1>2, <1>3, PTL DEF Spec
=============================================================================
