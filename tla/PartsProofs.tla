----------------------------- MODULE PartsProofs -----------------------------
(***************************************************************************)
(* The pthread locks of relibc, the virtual CPU and the device drivers,    *)
(* for every set of threads and every value of their other constants.      *)
(***************************************************************************)
EXTENDS MCParts, FiniteSetTheorems, NaturalLemmas, TLAPS

USE SMTT(30)   \* a leaf that names no prover has thirty seconds

-----------------------------------------------------------------------------
(* RlctMutex                                                               *)

(* Only a recursive mutex counts.  A thread in futex_wait has seen an      *)
(* owner, so that taking a free mutex does not change a word it waits for. *)
RlctInv ==
  /\ Rlct!TypeOK
  /\ Rlct!OwnerAndDepth
  /\ Rlct!NoLostWakeup
  /\ s1 # "Recursive" => s4 = 0 /\ \A t \in Thread : s7[t] <= 1
  /\ \A t \in Thread : s8[t] \in {"futex_wait", "sleep"} => s5[t] # Nobody
  /\ \A t \in s9 : s8[t] = "sleep"

(* A thread takes the mutex, once more if it is recursive, or leaves it.   *)
LEMMA RlctTakes ==
  ASSUME RlctInv, NEW t \in Thread, UNCHANGED <<s1, s2, s9>>,
         s8[t] \notin {"sleep", "futex_wake"},
         NEW label \in {"idle", "cas", "futex_wake"}, s8' = [s8 EXCEPT ![t] = label],
         s6' \in [Thread -> BOOLEAN],
         s5' = s5 \/ s5' = [s5 EXCEPT ![t] = Nobody],
         \/ s3 = Nobody /\ s3' = t /\ s4' = Rlct!Counted /\ s7' = [s7 EXCEPT ![t] = @ + 1]
         \/ /\ s3 = t /\ s3' = t /\ s1 = "Recursive" /\ s4 # MaxDepth
            /\ s4' = s4 + 1 /\ s7' = [s7 EXCEPT ![t] = @ + 1]
         \/ /\ s3 = t /\ s1 = "Recursive" /\ s4 - 1 > 0 /\ s3' = s3
            /\ s4' = s4 - 1 /\ s7' = [s7 EXCEPT ![t] = @ - 1]
         \/ /\ s3 = t /\ ~(s1 = "Recursive" /\ s4 - 1 > 0) /\ s3' = Nobody /\ label = "futex_wake"
            /\ s4' = (IF s1 = "Recursive" THEN s4 - 1 ELSE s4) /\ s7' = [s7 EXCEPT ![t] = @ - 1]
         \/ UNCHANGED <<s3, s4, s7>>
  PROVE  RlctInv'
<1> USE PartsAssumption DEF RlctInv, Rlct!Counted
<1>1. /\ s1 \in Rlct!Ty /\ s2 \in BOOLEAN /\ s3 \in Thread \cup {Nobody} /\ s4 \in 0..MaxDepth
      /\ s5 \in [Thread -> Thread \cup {Nobody}] /\ s7 \in [Thread -> Nat]
      /\ s8 \in [Thread -> {"idle", "cas", "futex_wait", "sleep", "futex_wake"}] /\ s9 \subseteq Thread
  BY DEF Rlct!TypeOK
<1>2. /\ s8'[t] = label /\ \A u \in Thread \ {t} : s8'[u] = s8[u]
      /\ \A u \in Thread \ {t} : s5'[u] = s5[u]
      /\ \A u \in Thread \ {t} : s7'[u] = s7[u]
  BY <1>1
<1>3. /\ \A u \in Thread : s7[u] \in Nat /\ (s7[u] > 0 <=> s3 = u)
      /\ s1 = "Recursive" /\ s3 # Nobody => s4 = s7[s3]
      /\ s3 = Nobody => s4 = 0
      /\ s1 # "Recursive" => s4 = 0 /\ \A u \in Thread : s7[u] <= 1
  BY <1>1 DEF Rlct!OwnerAndDepth
<1>4. \/ s3 = Nobody /\ s3' = t /\ s7'[t] = 1 /\ s4' = IF s1 = "Recursive" THEN 1 ELSE 0
      \/ s3 = t /\ s3' = t /\ s1 = "Recursive" /\ s7'[t] = s7[t] + 1 /\ s4' = s4 + 1 /\ s4 # MaxDepth
      \/ s3 = t /\ s3' = t /\ s1 = "Recursive" /\ s7'[t] = s7[t] - 1 /\ s4' = s4 - 1 /\ s4 - 1 > 0
      \/ s3 = t /\ s3' = Nobody /\ s7'[t] = 0 /\ s4' = 0 /\ label = "futex_wake"
      \/ UNCHANGED <<s3, s4, s7>>
  BY <1>1, <1>3
<1>5. s4' \in 0..MaxDepth /\ s3' \in Thread \cup {Nobody}
  BY <1>1, <1>4
<1>6. s7' \in [Thread -> Nat]
  <2>1. s7'[t] \in Nat
    BY <1>1, <1>3, <1>4
  <2> QED BY <1>1, <2>1
<1>7. Rlct!TypeOK'
  BY <1>1, <1>5, <1>6 DEF Rlct!TypeOK
<1>8. Rlct!OwnerAndDepth' /\ (s1' # "Recursive" => s4' = 0 /\ \A u \in Thread : s7'[u] <= 1)
  BY <1>1, <1>2, <1>3, <1>4 DEF Rlct!OwnerAndDepth
<1>9. \A u \in Thread : s8'[u] \in {"futex_wait", "sleep"} => s5'[u] # Nobody
  BY <1>1, <1>2
<1>10. \A u \in s9' : s8'[u] = "sleep" /\ u # t /\ u \in s9 /\ u \in Thread
  BY <1>1, <1>2
<1>11. Rlct!NoLostWakeup'
  BY <1>1, <1>2, <1>4, <1>10 DEF Rlct!NoLostWakeup
<1> QED BY <1>7, <1>8, <1>9, <1>10, <1>11

(* A thread sees another owner and waits, returns from futex_wait, with or *)
(* without a result, or makes its futex_wake.                              *)
LEMMA RlctWaits ==
  ASSUME RlctInv, NEW t \in Thread, UNCHANGED <<s1, s2, s3, s4, s6, s7>>,
         \/ /\ s8[t] = "cas" /\ s3 # Nobody /\ s5' = [s5 EXCEPT ![t] = s3]
            /\ s8' = [s8 EXCEPT ![t] = "futex_wait"] /\ s9' = s9
         \/ /\ s5' = s5
            /\ \/ Rlct!futex_wait(t, s3 = s5[t], "cas") \/ Rlct!wait_returns(t, "cas")
               \/ Rlct!futex_wake(t, "idle") \/ Rlct!timed_out(t, "idle") \/ Rlct!spurious(t)
  PROVE  RlctInv'
<1> USE PartsAssumption DEF RlctInv, Rlct!Goto
<1> DEFINE Labels == {"idle", "cas", "futex_wait", "sleep", "futex_wake"}
<1>1. /\ s3 \in Thread \cup {Nobody} /\ s5 \in [Thread -> Thread \cup {Nobody}]
      /\ s8 \in [Thread -> Labels] /\ s9 \subseteq Thread
  BY DEF Rlct!TypeOK
<1>2. PICK label \in Labels : s8' = [s8 EXCEPT ![t] = label]
  <2>1. CASE Rlct!spurious(t)
    <3>1. s8' = [s8 EXCEPT ![t] = s8[t]] /\ s8[t] \in Labels
      BY <1>1, <2>1 DEF Rlct!spurious
    <3> QED BY <3>1, ZenonT(30)
  <2>2. CASE ~Rlct!spurious(t)
    BY <2>2 DEF Rlct!futex_wait, Rlct!wait_returns, Rlct!futex_wake, Rlct!timed_out
  <2> QED BY <2>1, <2>2
<1>3. s8'[t] = label /\ \A u \in Thread \ {t} : s8'[u] = s8[u]
  BY <1>1, <1>2
<1>4. /\ s5' \in [Thread -> Thread \cup {Nobody}]
      /\ \A u \in Thread \ {t} : s5'[u] = s5[u]
  BY <1>1
<1>5. \/ /\ s8[t] = "cas" /\ label = "futex_wait" /\ s5'[t] # Nobody /\ s9' = s9
      \/ s8[t] = "futex_wait" /\ label = "sleep" /\ s3 = s5[t] /\ s9' = s9 \cup {t} /\ s5' = s5
      \/ s8[t] = "futex_wait" /\ label = "cas" /\ s9' = s9 /\ s5' = s5
      \/ s8[t] = "sleep" /\ t \notin s9 /\ label = "cas" /\ s9' = s9 /\ s5' = s5
      \/ label = "idle" /\ s9' = {} /\ s5' = s5
      \/ s8[t] = "sleep" /\ label \in {"idle", "sleep"} /\ s9' = s9 \ {t} /\ s5' = s5
  <2>1. CASE Rlct!timed_out(t, "idle") \/ Rlct!spurious(t)
    BY <1>1, <1>3, <2>1 DEF Rlct!timed_out, Rlct!spurious
  <2>2. CASE ~(Rlct!timed_out(t, "idle") \/ Rlct!spurious(t))
    BY <1>1, <1>3, <2>2 DEF Rlct!futex_wait, Rlct!wait_returns, Rlct!futex_wake
  <2> QED BY <2>1, <2>2
<1>6. s9' \subseteq Thread
  BY <1>1, <1>5
<1>7. Rlct!TypeOK' /\ Rlct!OwnerAndDepth'
  BY <1>1, <1>2, <1>4, <1>6, ZenonT(30) DEF Rlct!TypeOK, Rlct!OwnerAndDepth
<1>8. \A u \in Thread : s8'[u] \in {"futex_wait", "sleep"} => s5'[u] # Nobody
  BY <1>1, <1>3, <1>4, <1>5
<1>9. \A u \in s9' : s8'[u] = "sleep"
  BY <1>1, <1>3, <1>5
<1>10. Rlct!NoLostWakeup'
  BY <1>1, <1>3, <1>4, <1>5 DEF Rlct!NoLostWakeup
<1> QED BY <1>7, <1>8, <1>9, <1>10

(* Every step of a thread is one of these.                                 *)
LEMMA RlctStep ==
  ASSUME RlctInv, NEW t \in Thread,
         \/ \E d \in BOOLEAN : Rlct!lock(t, d)
         \/ Rlct!lock_inner(t) \/ Rlct!try_lock(t) \/ Rlct!unlock(t)
         \/ Rlct!Waiting(t) \/ Rlct!Disturbed(t)
  PROVE  RlctInv'
<1> USE DEF Rlct!attrs, Rlct!Goto, Rlct!Fail, Rlct!Take, Rlct!Forget, Rlct!CountIsMax
<1>1. /\ s3 \in Thread \cup {Nobody} /\ s8 \in [Thread -> {"idle", "cas", "futex_wait", "sleep", "futex_wake"}]
      /\ s6 \in [Thread -> BOOLEAN]
  BY DEF RlctInv, Rlct!TypeOK
<1>2. CASE \E d \in BOOLEAN : Rlct!lock(t, d)
  <2>1. s6' \in [Thread -> BOOLEAN]
    BY <1>1, <1>2, ZenonT(30) DEF Rlct!lock
  <2> QED BY <1>2, <2>1, RlctTakes, ZenonT(30) DEF Rlct!lock
<1>3. CASE Rlct!lock_inner(t)
  <2>1. CASE s3 \notin {Nobody, t}
    BY <1>3, <2>1, RlctWaits, PartsAssumption DEF Rlct!lock_inner
  <2>2. CASE s3 \in {Nobody, t}
    BY <1>1, <1>3, <2>2, RlctTakes, PartsAssumption DEF Rlct!lock_inner, Rlct!Counted
  <2> QED BY <2>1, <2>2
<1>4. CASE Rlct!try_lock(t)
  <2>1. s8' = [s8 EXCEPT ![t] = "idle"]
    BY <1>1, <1>4 DEF Rlct!try_lock
  <2> QED BY <1>1, <1>4, <2>1, RlctTakes, ZenonT(30) DEF Rlct!try_lock, Rlct!Counted
<1>5. CASE Rlct!unlock(t)
  <2>1. (s3 # t /\ UNCHANGED <<s3, s4, s7, s8>>) \/ s3 = t
    BY <1>1, <1>5 DEF Rlct!unlock, RlctInv, Rlct!OwnerAndDepth
  <2> QED BY <1>1, <1>5, <2>1, RlctTakes DEF Rlct!unlock
<1>6. CASE Rlct!Waiting(t) \/ Rlct!Disturbed(t)
  BY <1>6, RlctWaits DEF Rlct!Waiting, Rlct!Disturbed
<1> QED BY <1>2, <1>3, <1>4, <1>5, <1>6

(* The word and the count always name the owner and say how often it has   *)
(* the mutex, and no wake-up is lost, for any number of threads that lock  *)
(* with and without a deadline, try, relock, unlock what is not theirs,    *)
(* time out and wake spuriously, on a mutex of any kind.                   *)
LEMMA RlctIsSound ==
  PartsSpec => [](kind = "mutex" => RlctInv)
<1> DEFINE Inv == kind = "mutex" => RlctInv
<1>1. PartsInit => Inv
  <2> SUFFICES ASSUME Rlct!Init PROVE RlctInv
    BY DEF PartsInit
  <2>1. s2 \in BOOLEAN /\ s6 \in [Thread -> BOOLEAN]
    BY ZenonT(30) DEF Rlct!Init
  <2>2. Rlct!TypeOK
    BY <2>1, PartsAssumption DEF Rlct!Init, Rlct!TypeOK
  <2>3. Rlct!OwnerAndDepth /\ Rlct!NoLostWakeup
    BY PartsAssumption DEF Rlct!Init, Rlct!OwnerAndDepth, Rlct!NoLostWakeup
  <2> QED BY <2>2, <2>3 DEF RlctInv, Rlct!Init
<1>2. Inv /\ [PartsNext /\ UNCHANGED kind]_<<kind, slots>> => Inv'
  <2> SUFFICES ASSUME Inv, [PartsNext /\ UNCHANGED kind]_<<kind, slots>>, kind' = "mutex" PROVE RlctInv'
    OBVIOUS
  <2>1. kind = "mutex" /\ RlctInv
    OBVIOUS
  <2>2. CASE UNCHANGED slots
    BY <2>1, <2>2 DEF slots, RlctInv, Rlct!TypeOK, Rlct!OwnerAndDepth, Rlct!NoLostWakeup
  <2>3. CASE PartsNext
    <3>1. Rlct!Next
      BY <2>1, <2>3 DEF PartsNext
    <3> QED BY <2>1, <3>1, RlctStep DEF Rlct!Next
  <2> QED BY <2>2, <2>3
<1> HIDE DEF Inv
<1>3. PartsSpec => []Inv
  BY <1>1, <1>2, PTL DEF PartsSpec
<1> QED BY <1>3 DEF Inv

-----------------------------------------------------------------------------
(* Semaphore                                                               *)

(* No thread has taken more than all have, and a compare-exchange is tried *)
(* with a word that was not 0.                                             *)
SemInv ==
  /\ Sem!TypeOK
  /\ Sem!NoUnitLost
  /\ \A t \in Thread : s4[t] <= s6 /\ (s8[t] = "cas" => s2[t] > 0)

(* Every step of post and of wait keeps this.                              *)
LEMMA SemStep ==
  ASSUME SemInv, NEW t \in Thread,
         \/ Sem!Call(t) \/ Sem!post(t) \/ Sem!load(t) \/ Sem!cas(t) \/ Sem!wait_more(t) \/ Sem!Sleep(t)
  PROVE  SemInv'
<1> USE PartsAssumption DEF SemInv, Sem!Goto, Sem!Took
<1> DEFINE Labels == {"idle", "load", "cas", "timeout", "futex_wait", "sleep", "done", "futex_wake"}
           Word == 0..(Units + Posts)
<1>1. /\ s1 \in Word /\ s2 \in [Thread -> Word] /\ s3 \in 0..Posts /\ s4 \in [Thread -> Word]
      /\ s6 \in Word /\ s5 \in [Thread -> {"none", "ok", "timeout"}] /\ s8 \in [Thread -> Labels]
      /\ s9 \subseteq Thread
      /\ s1 + s6 = Units + s3
  BY DEF Sem!TypeOK, Sem!NoUnitLost
<1>2. PICK label \in Labels : s8' = [s8 EXCEPT ![t] = label]
  <2>1. CASE s8' = s8
    <3>1. s8' = [s8 EXCEPT ![t] = s8[t]] /\ s8[t] \in Labels
      BY <1>1, <2>1
    <3> QED BY <3>1, ZenonT(30)
  <2>2. CASE s8' # s8
    BY <2>2 DEF Sem!Call, Sem!post, Sem!load, Sem!cas, Sem!wait_more, Sem!Sleep, Sem!futex_wait,
                Sem!wait_returns, Sem!futex_wake, Sem!spurious
  <2> QED BY <2>1, <2>2
<1>3. s8'[t] = label /\ \A u \in Thread \ {t} : s8'[u] = s8[u]
  BY <1>1, <1>2
<1>4. s9' \subseteq Thread /\ s5' \in [Thread -> {"none", "ok", "timeout"}]
  BY <1>1 DEF Sem!Call, Sem!post, Sem!load, Sem!cas, Sem!wait_more, Sem!Sleep, Sem!futex_wait,
              Sem!wait_returns, Sem!futex_wake, Sem!spurious
<1>5. \/ label \in {s8[t]} \cup (Labels \ {"cas"}) /\ UNCHANGED <<s1, s2, s3, s4, s6>>
      \/ label # "cas" /\ s3 < Posts /\ s1' = s1 + 1 /\ s3' = s3 + 1 /\ UNCHANGED <<s2, s4, s6>>
      \/ s2' = [s2 EXCEPT ![t] = s1] /\ (label = "cas" => s1 > 0) /\ UNCHANGED <<s1, s3, s4, s6>>
      \/ /\ label # "cas" /\ s8[t] = "cas" /\ s1 = s2[t] /\ s1' = s1 - 1
         /\ s4' = [s4 EXCEPT ![t] = s4[t] + 1] /\ s6' = s6 + 1 /\ UNCHANGED <<s2, s3>>
  <2>1. CASE Sem!load(t) \/ Sem!cas(t)
    BY <1>1, <1>3, <2>1 DEF Sem!load, Sem!cas
  <2>2. CASE Sem!Call(t) \/ Sem!post(t) \/ Sem!wait_more(t)
    BY <1>1, <1>3, <2>2 DEF Sem!Call, Sem!post, Sem!wait_more
  <2>3. CASE Sem!Sleep(t)
    <3>1. label = s8[t] \/ label # "cas"
      BY <1>1, <1>3, <2>3 DEF Sem!Sleep, Sem!futex_wait, Sem!wait_returns, Sem!futex_wake, Sem!spurious
    <3> QED BY <3>1, <2>3 DEF Sem!Sleep
  <2> QED BY <2>1, <2>2, <2>3
<1>6. /\ s1' \in Nat /\ s3' \in 0..Posts /\ s6' \in Nat /\ s1' + s6' = Units + s3'
      /\ s6 <= s6'
  BY <1>1, <1>5
<1>7. s1' \in Word /\ s6' \in Word
  BY <1>6
<1>8. s2' \in [Thread -> Word] /\ \A u \in Thread : s8'[u] = "cas" => s2'[u] > 0
  BY <1>1, <1>3, <1>5
<1>9. s4' \in [Thread -> Word] /\ \A u \in Thread : s4'[u] <= s6'
  <2>1. CASE s4' = s4
    BY <1>1, <1>5, <1>6, <2>1
  <2>2. CASE s4' = [s4 EXCEPT ![t] = s4[t] + 1] /\ s6' = s6 + 1
    <3>1. s4[t] + 1 <= s6' /\ s4[t] + 1 \in Word
      BY <1>1, <1>7, <2>2
    <3> QED BY <1>1, <2>2, <3>1
  <2> QED BY <1>5, <2>1, <2>2
<1> QED BY <1>2, <1>1, <1>4, <1>6, <1>7, <1>8, <1>9 DEF Sem!TypeOK, Sem!NoUnitLost

(* However post and wait interleave, no unit is lost or taken twice.       *)
LEMMA SemIsSound ==
  PartsSpec => [](kind = "semaphore" => SemInv)
<1> DEFINE Inv == kind = "semaphore" => SemInv
<1>1. PartsInit => Inv
  BY PartsAssumption DEF PartsInit, SemInv, Sem!Init, Sem!TypeOK, Sem!NoUnitLost
<1>2. Inv /\ [PartsNext /\ UNCHANGED kind]_<<kind, slots>> => Inv'
  <2> SUFFICES ASSUME Inv, [PartsNext /\ UNCHANGED kind]_<<kind, slots>>, kind' = "semaphore" PROVE SemInv'
    OBVIOUS
  <2>1. kind = "semaphore" /\ SemInv
    OBVIOUS
  <2>2. CASE UNCHANGED slots
    BY <2>1, <2>2 DEF slots, SemInv, Sem!TypeOK, Sem!NoUnitLost
  <2>3. CASE PartsNext
    <3>1. Sem!Next
      BY <2>1, <2>3 DEF PartsNext
    <3> QED BY <2>1, <3>1, SemStep DEF Sem!Next
  <2> QED BY <2>2, <2>3
<1> HIDE DEF Inv
<1>3. PartsSpec => []Inv
  BY <1>1, <1>2, PTL DEF PartsSpec
<1> QED BY <1>3 DEF Inv

-----------------------------------------------------------------------------
(* Rwlock                                                                  *)

EXCLUSIVE == Cardinality(Thread) + 1

(* The word is the number of holders, all readers, or says that its one    *)
(* holder is a writer.                                                     *)
RwWord ==
  \/ (\A t \in Rw!Holders : ~Rw!Writes(t)) /\ s1 = Cardinality(Rw!Holders)
  \/ \E w \in Thread : Rw!Holders = {w} /\ Rw!Writes(w) /\ s1 = EXCLUSIVE

RwUnlock == \A t \in Rw!Holders : s8[t] # "held" => (s8[t] = "unlock_write" <=> Rw!Writes(t))

(* Who is about to sleep has seen the lock taken.                          *)
RwInv ==
  /\ Rw!TypeOK
  /\ RwWord /\ RwUnlock
  /\ Rw!NoLostWakeup
  /\ \A t \in Thread : s8[t] = "futex_wait" => s4[t].count > 0

(* A set of threads is finite and counted by less than EXCLUSIVE.          *)
LEMMA RwFinite ==
  ASSUME NEW S \in SUBSET Thread
  PROVE  IsFiniteSet(S) /\ Cardinality(S) \in Nat /\ Cardinality(S) < EXCLUSIVE /\ EXCLUSIVE \in Nat
<1>1. IsFiniteSet(Thread) /\ IsFiniteSet(S) /\ Cardinality(S) <= Cardinality(Thread)
  BY PartsAssumption, FS_Subset
<1>2. Cardinality(S) \in Nat /\ Cardinality(Thread) \in Nat
  BY <1>1, FS_CardinalityType
<1> QED BY <1>1, <1>2 DEF EXCLUSIVE

(* RwWord and RwUnlock are the property.                                   *)
LEMMA RwWordMeans ==
  RwWord /\ RwUnlock => Rw!ReadersOrOneWriter
<1> SUFFICES ASSUME RwWord, RwUnlock PROVE Rw!ReadersOrOneWriter
  OBVIOUS
<1>1. \A S : Rw!Cardinality(S) = Cardinality(S)
  BY DEF Rw!Cardinality, Cardinality
<1> DEFINE W == {t \in Rw!Holders : Rw!Writes(t)}
<1>2. IF W = {} THEN s1 = Cardinality(Rw!Holders) ELSE s1 = EXCLUSIVE /\ Cardinality(Rw!Holders) = 1
  <2>1. CASE \A t \in Rw!Holders : ~Rw!Writes(t)
    <3>1. W = {} /\ ~\E w \in Thread : Rw!Holders = {w} /\ Rw!Writes(w)
      BY <2>1
    <3> QED BY <3>1 DEF RwWord
  <2>2. CASE ~\A t \in Rw!Holders : ~Rw!Writes(t)
    <3>1. PICK w \in Thread : Rw!Holders = {w} /\ Rw!Writes(w) /\ s1 = EXCLUSIVE
      BY <2>2 DEF RwWord
    <3>2. W # {} /\ Cardinality({w}) = 1
      BY <3>1, FS_Singleton
    <3> QED BY <3>1, <3>2
  <2> QED BY <2>1, <2>2
<1> QED BY <1>1, <1>2 DEF Rw!ReadersOrOneWriter, RwUnlock, EXCLUSIVE

(* How a step of t changes the word and the holders.                       *)
LEMMA RwHolders ==
  ASSUME RwWord, NEW t \in Thread,
         NEW H, H = Rw!Holders', H \subseteq Thread,
         \A u \in Thread \ {t} : (u \in H <=> u \in Rw!Holders) /\ (Rw!Writes(u)' <=> Rw!Writes(u)),
         \/ t \notin H /\ t \notin Rw!Holders /\ s1' = s1
         \/ t \in H /\ t \in Rw!Holders /\ (Rw!Writes(t)' <=> Rw!Writes(t)) /\ s1' = s1
         \/ t \in H /\ t \notin Rw!Holders /\ Rw!Writes(t)' /\ s1 = 0 /\ s1' = EXCLUSIVE
         \/ t \in H /\ t \notin Rw!Holders /\ ~Rw!Writes(t)' /\ s1 # EXCLUSIVE /\ s1' = s1 + 1
         \/ t \notin H /\ t \in Rw!Holders /\ Rw!Writes(t) /\ s1' = 0
         \/ t \notin H /\ t \in Rw!Holders /\ ~Rw!Writes(t) /\ s1' = s1 - 1
  PROVE  RwWord' /\ s1' \in 0..EXCLUSIVE
<1> DEFINE G == Rw!Holders
<1>1. G \subseteq Thread
  BY DEF Rw!Holders
<1>2. /\ IsFiniteSet(G) /\ IsFiniteSet(H) /\ Cardinality(G) \in Nat /\ Cardinality(H) \in Nat
      /\ Cardinality(G) < EXCLUSIVE /\ Cardinality(H) < EXCLUSIVE /\ EXCLUSIVE \in Nat
  BY <1>1, RwFinite
<1>3. CASE H = G /\ (t \in G => (Rw!Writes(t)' <=> Rw!Writes(t))) /\ s1' = s1
  <2>1. CASE (\A u \in G : ~Rw!Writes(u)) /\ s1 = Cardinality(G)
    BY <1>1, <1>2, <1>3, <2>1 DEF RwWord
  <2>2. CASE \E w \in Thread : G = {w} /\ Rw!Writes(w) /\ s1 = EXCLUSIVE
    <3>1. PICK w \in Thread : G = {w} /\ Rw!Writes(w) /\ s1 = EXCLUSIVE
      BY <2>2
    <3>2. Rw!Writes(w)'
      BY <1>3, <3>1
    <3> QED BY <1>2, <1>3, <3>1, <3>2 DEF RwWord, EXCLUSIVE
  <2> QED BY <2>1, <2>2 DEF RwWord
<1>4. CASE t \in H /\ t \notin G /\ Rw!Writes(t)' /\ s1 = 0 /\ s1' = EXCLUSIVE
  <2>1. G = {}
    BY <1>2, <1>4, FS_EmptySet DEF RwWord
  <2>2. H = {t}
    BY <1>1, <1>4, <2>1
  <2> QED BY <1>2, <1>4, <2>2 DEF RwWord, EXCLUSIVE
<1>5. CASE t \in H /\ t \notin G /\ ~Rw!Writes(t)' /\ s1 # EXCLUSIVE /\ s1' = s1 + 1
  <2>1. (\A u \in G : ~Rw!Writes(u)) /\ s1 = Cardinality(G)
    BY <1>5 DEF RwWord
  <2>2. H = G \cup {t}
    BY <1>1, <1>5
  <2>3. Cardinality(H) = Cardinality(G) + 1
    BY <1>2, <1>5, <2>2, FS_AddElement
  <2>4. \A u \in H : ~Rw!Writes(u)'
    BY <1>1, <1>5, <2>1, <2>2
  <2> QED BY <1>2, <1>5, <2>1, <2>3, <2>4 DEF RwWord
<1>6. CASE t \notin H /\ t \in G /\ Rw!Writes(t) /\ s1' = 0
  <2>1. G = {t}
    BY <1>6 DEF RwWord
  <2>2. H = {}
    BY <1>1, <1>6, <2>1
  <2> QED BY <1>2, <1>6, <2>2, FS_EmptySet DEF RwWord
<1>7. CASE t \notin H /\ t \in G /\ ~Rw!Writes(t) /\ s1' = s1 - 1
  <2>1. (\A u \in G : ~Rw!Writes(u)) /\ s1 = Cardinality(G)
    BY <1>7 DEF RwWord
  <2>2. H = G \ {t}
    BY <1>1, <1>7
  <2>3. Cardinality(H) = Cardinality(G) - 1
    BY <1>2, <1>7, <2>2, FS_RemoveElement
  <2>4. \A u \in H : ~Rw!Writes(u)'
    BY <1>1, <1>7, <2>1, <2>2
  <2> QED BY <1>2, <1>7, <2>1, <2>3, <2>4 DEF RwWord
<1> QED BY <1>1, <1>3, <1>4, <1>5, <1>6, <1>7

RwLabels == {"idle", "load", "cas", "mark", "futex_wait", "sleep", "held", "unlock_write", "unlock_read", "futex_wake"}
RwOps == {"read", "write", "try_read", "try_write"}
RwWords == [count : 0..EXCLUSIVE, wr : BOOLEAN]

(* The types in the form the steps below use them.                         *)
LEMMA RwTypes ==
  Rw!TypeOK <=>
    /\ s1 \in 0..EXCLUSIVE /\ s2 \in BOOLEAN /\ s3 \in [Thread -> RwOps] /\ s4 \in [Thread -> RwWords]
    /\ s8 \in [Thread -> RwLabels] /\ s9 \subseteq Thread
BY DEF Rw!TypeOK, EXCLUSIVE, RwLabels, RwOps, RwWords

(* A step of t that has these effects keeps the invariant.                 *)
LEMMA RwEffects ==
  ASSUME RwInv, NEW t \in Thread, NEW label \in RwLabels, NEW f \in RwOps, NEW w \in RwWords,
         s8' = [s8 EXCEPT ![t] = label], s3' = [s3 EXCEPT ![t] = f], s4' = [s4 EXCEPT ![t] = w],
         s2' \in BOOLEAN, s9' = s9, s8[t] # "futex_wake",
         label = "futex_wait" => w.count > 0,
         \/ /\ label \notin {"held", "unlock_write", "unlock_read"} /\ s1' = s1
            /\ s8[t] \notin {"held", "unlock_write", "unlock_read"}
         \/ /\ s8[t] = "held" /\ s1' = s1 /\ f = s3[t]
            /\ label = IF s1 = EXCLUSIVE THEN "unlock_write" ELSE "unlock_read"
         \/ s8[t] = "cas" /\ label = "held" /\ f = "write" /\ s1 = 0 /\ s1' = EXCLUSIVE
         \/ s8[t] = "cas" /\ label = "held" /\ f = "read" /\ s1 # EXCLUSIVE /\ s1' = s1 + 1
         \/ s8[t] = "unlock_write" /\ label = "futex_wake" /\ s1' = 0
         \/ /\ s8[t] = "unlock_read" /\ label = (IF s1 = 1 THEN "futex_wake" ELSE "idle")
            /\ s1' = s1 - 1
  PROVE  RwInv'
<1> USE DEF RwInv
<1> DEFINE H == Rw!Holders'
<1>1. /\ s1 \in 0..EXCLUSIVE /\ s3 \in [Thread -> RwOps] /\ s4 \in [Thread -> RwWords]
      /\ s8 \in [Thread -> RwLabels] /\ s9 \subseteq Thread
  BY RwTypes
<1>2. /\ s8'[t] = label /\ s3'[t] = f /\ s4'[t] = w
      /\ \A u \in Thread \ {t} : s8'[u] = s8[u] /\ s3'[u] = s3[u] /\ s4'[u] = s4[u]
  BY <1>1
<1>3. /\ H \subseteq Thread /\ Rw!Holders \subseteq Thread
      /\ \A u \in Thread : u \in H <=> s8'[u] \in {"held", "unlock_write", "unlock_read"}
      /\ \A u \in Thread : u \in Rw!Holders <=> s8[u] \in {"held", "unlock_write", "unlock_read"}
  BY DEF Rw!Holders
<1>4. /\ \A u \in Thread : Rw!Writes(u)' <=> s3'[u] \in {"write", "try_write"}
      /\ \A u \in Thread : Rw!Writes(u) <=> s3[u] \in {"write", "try_write"}
  BY DEF Rw!Writes
<1>5. \A u \in Thread \ {t} : (u \in H <=> u \in Rw!Holders) /\ (Rw!Writes(u)' <=> Rw!Writes(u))
  BY <1>2, <1>3, <1>4
<1>6. \A u \in Rw!Holders : s8[u] # "held" => (s8[u] = "unlock_write" <=> Rw!Writes(u))
  BY DEF RwUnlock
<1>7. \/ t \notin H /\ t \notin Rw!Holders /\ s1' = s1
      \/ t \in H /\ t \in Rw!Holders /\ (Rw!Writes(t)' <=> Rw!Writes(t)) /\ s1' = s1
      \/ t \in H /\ t \notin Rw!Holders /\ Rw!Writes(t)' /\ s1 = 0 /\ s1' = EXCLUSIVE
      \/ t \in H /\ t \notin Rw!Holders /\ ~Rw!Writes(t)' /\ s1 # EXCLUSIVE /\ s1' = s1 + 1
      \/ t \notin H /\ t \in Rw!Holders /\ Rw!Writes(t) /\ s1' = 0
      \/ t \notin H /\ t \in Rw!Holders /\ ~Rw!Writes(t) /\ s1' = s1 - 1
  BY <1>2, <1>3, <1>4, <1>6
<1>8. RwWord' /\ s1' \in 0..EXCLUSIVE
  <2> HIDE DEF H
  <2> QED BY <1>3, <1>5, <1>7, RwHolders DEF H
<1>9. Rw!TypeOK'
  BY <1>1, <1>8, RwTypes DEF Rw!TypeOK, EXCLUSIVE, RwLabels, RwOps, RwWords
<1>10. RwUnlock'
  <2>1. ASSUME s8[t] = "held" PROVE s1 = EXCLUSIVE <=> Rw!Writes(t)
    <3>1. t \in Rw!Holders
      BY <1>3, <2>1
    <3>2. Cardinality(Rw!Holders) < EXCLUSIVE /\ Cardinality(Rw!Holders) \in Nat /\ EXCLUSIVE \in Nat
      BY <1>3, RwFinite, ZenonT(30)
    <3> QED BY <3>1, <3>2 DEF RwWord
  <2>2. ASSUME NEW u \in H, s8'[u] # "held" PROVE s8'[u] = "unlock_write" <=> Rw!Writes(u)'
    BY <1>2, <1>3, <1>4, <1>5, <1>6, <2>1, <2>2
  <2> QED BY <2>2 DEF RwUnlock
<1>11. Rw!NoLostWakeup'
  BY <1>1, <1>2 DEF Rw!NoLostWakeup
<1>12. \A u \in Thread : s8'[u] = "futex_wait" => s4'[u].count > 0
  BY <1>2
<1> QED BY <1>8, <1>9, <1>10, <1>11, <1>12

(* The steps that read and write the word.                                 *)
LEMMA RwAccess ==
  ASSUME RwInv, NEW t \in Thread,
         \/ Rw!Call(t) \/ Rw!load(t) \/ Rw!acquire_write(t) \/ Rw!mark_waiting(t) \/ Rw!acquire_read(t)
         \/ Rw!unlock(t) \/ Rw!unlock_write(t) \/ Rw!unlock_read(t)
  PROVE  RwInv'
<1> USE DEF Rw!Goto, Rw!Writes
<1> DEFINE Zero == [count |-> 0, wr |-> FALSE]
<1>1. /\ s1 \in 0..EXCLUSIVE /\ s2 \in BOOLEAN /\ s3 \in [Thread -> RwOps] /\ s4 \in [Thread -> RwWords]
      /\ s8 \in [Thread -> RwLabels]
  BY RwTypes DEF RwInv
<1>2. /\ s3 = [s3 EXCEPT ![t] = s3[t]] /\ s3[t] \in RwOps
      /\ s4 = [s4 EXCEPT ![t] = s4[t]] /\ s4[t] \in RwWords
      /\ s4[t].count \in 0..EXCLUSIVE /\ s4[t].wr \in BOOLEAN
  BY <1>1 DEF RwWords
<1>3. /\ Rw!State \in RwWords /\ Rw!State.count = s1 /\ [Rw!State EXCEPT !.count = 0] \in RwWords
      /\ Zero \in RwWords
      /\ EXCLUSIVE \in Nat \ {0}
  <2>1. EXCLUSIVE \in Nat \ {0}
    BY RwFinite, FS_CardinalityType, PartsAssumption DEF EXCLUSIVE
  <2>2. 0 \in 0..EXCLUSIVE
    BY <2>1
  <2> QED BY <1>1, <2>1, <2>2, ZenonT(30) DEF Rw!State, RwWords
<1>4. /\ \A l \in {"idle", "load", "cas", "mark", "futex_wait", "held", "unlock_write", "unlock_read", "futex_wake"} :
           l \in RwLabels
      /\ \A f \in {"read", "write", "try_read", "try_write"} : f \in RwOps
  BY DEF RwLabels, RwOps
<1> HIDE DEF Zero
<1>5. CASE Rw!Call(t)
  <2>1. PICK f \in RwOps : s3' = [s3 EXCEPT ![t] = f]
    BY <1>4, <1>5, ZenonT(30) DEF Rw!Call
  <2>2. s4' = [s4 EXCEPT ![t] = s4[t]] /\ s2' \in BOOLEAN /\ s1' = s1 /\ s9' = s9
    BY <1>1, <1>2, <1>5, ZenonT(30) DEF Rw!Call
  <2>3. s8[t] = "idle" /\ s8' = [s8 EXCEPT ![t] = "load"]
    BY <1>5 DEF Rw!Call
  <2> QED BY <1>2, <1>4, <2>1, <2>2, <2>3, RwEffects, ZenonT(30)
<1>6. CASE Rw!load(t)
  <2>1. PICK w \in RwWords : s4' = [s4 EXCEPT ![t] = w]
    BY <1>3, <1>6, ZenonT(30) DEF Rw!load
  <2> QED BY <1>1, <1>2, <1>4, <1>6, <2>1, RwEffects, ZenonT(30) DEF Rw!load
<1>7. CASE Rw!mark_waiting(t)
  <2>1. PICK b \in BOOLEAN : s4' = [s4 EXCEPT ![t].wr = b]
    BY <1>7, ZenonT(30) DEF Rw!mark_waiting
  <2> DEFINE w == [s4[t] EXCEPT !.wr = b]
  <2>2. w \in RwWords /\ w.count = s4[t].count /\ s4' = [s4 EXCEPT ![t] = w]
    BY <1>1, <1>2, <2>1 DEF RwWords
  <2>3. s2' \in BOOLEAN
    BY <1>7, ZenonT(30) DEF Rw!mark_waiting
  <2>4. /\ s8[t] = "mark" /\ s1' = s1 /\ s3' = s3 /\ s9' = s9
        /\ s8' = [s8 EXCEPT ![t] = IF s4[t].count > 0 THEN "futex_wait" ELSE "cas"]
    BY <1>7 DEF Rw!mark_waiting
  <2> HIDE DEF w
  <2>5. CASE s4[t].count > 0
    BY <1>2, <1>4, <2>2, <2>3, <2>4, <2>5, RwEffects, ZenonT(30)
  <2>6. CASE ~(s4[t].count > 0)
    BY <1>2, <1>4, <2>2, <2>3, <2>4, <2>6, RwEffects, ZenonT(30)
  <2> QED BY <2>5, <2>6
<1>8. CASE Rw!unlock(t)
  <2>1. s8[t] = "held" /\ UNCHANGED <<s1, s2, s3, s4, s9>>
    BY <1>8 DEF Rw!unlock
  <2>2. s8' = [s8 EXCEPT ![t] = IF s1 = EXCLUSIVE THEN "unlock_write" ELSE "unlock_read"]
    BY <1>8 DEF Rw!unlock, EXCLUSIVE
  <2>3. s3' = [s3 EXCEPT ![t] = s3[t]] /\ s4' = [s4 EXCEPT ![t] = s4[t]] /\ s2' \in BOOLEAN
    BY <1>1, <1>2, <2>1, ZenonT(30)
  <2>4. PICK label \in {"unlock_write", "unlock_read"} :
          /\ label = IF s1 = EXCLUSIVE THEN "unlock_write" ELSE "unlock_read"
          /\ s8' = [s8 EXCEPT ![t] = label]
    BY <2>2, ZenonT(30)
  <2>5. label \in RwLabels /\ label # "futex_wait" /\ s8[t] # "futex_wake" /\ s1' = s1 /\ s9' = s9
    BY <1>4, <2>1, <2>4
  <2> QED BY <1>2, <2>1, <2>3, <2>4, <2>5, RwEffects, ZenonT(30)
<1>9. CASE Rw!unlock_write(t)
  <2>1. s2' \in BOOLEAN
    BY <1>9, ZenonT(30) DEF Rw!unlock_write
  <2> QED BY <1>1, <1>2, <1>4, <1>9, <2>1, RwEffects, ZenonT(30) DEF Rw!unlock_write
<1>10. CASE Rw!unlock_read(t)
  <2>1. /\ s8[t] = "unlock_read" /\ UNCHANGED <<s2, s3, s4, s9>> /\ s1' = s1 - 1
        /\ s8' = [s8 EXCEPT ![t] = IF s1 = 1 THEN "futex_wake" ELSE "idle"]
    BY <1>10 DEF Rw!unlock_read
  <2>2. s3' = [s3 EXCEPT ![t] = s3[t]] /\ s4' = [s4 EXCEPT ![t] = s4[t]] /\ s2' \in BOOLEAN
    BY <1>1, <1>2, <2>1, ZenonT(30)
  <2>3. PICK label \in {"futex_wake", "idle"} :
          label = (IF s1 = 1 THEN "futex_wake" ELSE "idle") /\ s8' = [s8 EXCEPT ![t] = label]
    BY <2>1, ZenonT(30)
  <2>4. label \in RwLabels /\ label # "futex_wait" /\ s8[t] # "futex_wake" /\ s9' = s9
    BY <1>4, <2>1, <2>3
  <2> QED BY <1>2, <2>1, <2>2, <2>3, <2>4, RwEffects, ZenonT(30)
<1>11. ASSUME s8[t] = "cas", s9' = s9,
              \/ Rw!Failed(t, "mark") \/ Rw!Failed(t, "cas")
              \/ Rw!Failed(t, "futex_wait") /\ s1 = EXCLUSIVE
              \/ Rw!Refused(t)
       PROVE  RwInv'
  <2>1. CASE Rw!Refused(t)
    BY <1>1, <1>3, <1>4, <1>11, <2>1, RwEffects, ZenonT(30) DEF Rw!Refused, Rw!Returned, Rw!Forget, Zero
  <2>2. CASE ~Rw!Refused(t)
    BY <1>1, <1>2, <1>3, <1>4, <1>11, <2>2, RwEffects DEF Rw!Failed
  <2> QED BY <2>1, <2>2
<1>12. CASE Rw!acquire_write(t)
  <2>1. CASE s1 = 0 /\ Rw!Acquired(t, EXCLUSIVE, FALSE)
    <3>1. s2' \in BOOLEAN
      BY <2>1, ZenonT(30) DEF Rw!Acquired
    <3>2. s3' = [s3 EXCEPT ![t] = "write"]
      BY <1>12, <2>1 DEF Rw!acquire_write, Rw!Acquired
    <3> QED BY <1>3, <1>4, <1>12, <2>1, <3>1, <3>2, RwEffects, ZenonT(30)
               DEF Rw!Acquired, Rw!Forget, Rw!acquire_write, Zero
  <2>2. s8[t] = "cas" /\ s9' = s9
    BY <1>12, ZenonT(30) DEF Rw!acquire_write
  <2>3. \/ s1 = 0 /\ Rw!Acquired(t, EXCLUSIVE, FALSE)
        \/ Rw!Failed(t, "mark") \/ Rw!Failed(t, "cas") \/ Rw!Refused(t)
    BY <1>12, ZenonT(30) DEF Rw!acquire_write, EXCLUSIVE
  <2> QED BY <2>1, <2>2, <2>3, <1>11, ZenonT(30)
<1>13. CASE Rw!acquire_read(t)
  <2>1. CASE s1 # EXCLUSIVE /\ Rw!Acquired(t, s1 + 1, s2)
    <3>1. s3' = [s3 EXCEPT ![t] = "read"]
      BY <1>13, <2>1, ZenonT(30) DEF Rw!acquire_read, Rw!Acquired
    <3> QED BY <1>1, <1>3, <1>4, <1>13, <2>1, <3>1, RwEffects, ZenonT(30)
               DEF Rw!Acquired, Rw!Forget, Rw!acquire_read, Zero
  <2>2. s8[t] = "cas" /\ s9' = s9
    BY <1>13, ZenonT(30) DEF Rw!acquire_read
  <2>3. \/ s1 # EXCLUSIVE /\ Rw!Acquired(t, s1 + 1, s2)
        \/ Rw!Failed(t, "cas") \/ (Rw!Failed(t, "futex_wait") /\ s1 = EXCLUSIVE) \/ Rw!Refused(t)
    BY <1>3, <1>13 DEF Rw!acquire_read, EXCLUSIVE
  <2> QED BY <2>1, <2>2, <2>3, <1>11
<1> QED BY <1>5, <1>6, <1>7, <1>8, <1>9, <1>10, <1>12, <1>13

(* The steps in the futex calls.                                           *)
LEMMA RwSleeps ==
  ASSUME RwInv, NEW t \in Thread, Rw!Sleep(t) \/ Rw!Spurious(t)
  PROVE  RwInv'
<1> USE DEF RwInv, Rw!Goto
<1>1. /\ s1 \in 0..EXCLUSIVE /\ s4 \in [Thread -> RwWords] /\ s8 \in [Thread -> RwLabels] /\ s9 \subseteq Thread
      /\ EXCLUSIVE \in Nat
  BY RwTypes, RwFinite
<1>2. UNCHANGED <<s1, s2, s3, s4>>
  BY DEF Rw!Sleep, Rw!Spurious
<1>3. PICK label \in RwLabels :
        /\ s8' = [s8 EXCEPT ![t] = label]
        /\ \/ label \in {"cas", "load", "idle", "sleep"} /\ s8[t] \in {"futex_wait", "sleep", "futex_wake"}
           \/ label = s8[t]
  <2>1. CASE Rw!Spurious(t)
    <3>1. s8' = [s8 EXCEPT ![t] = s8[t]] /\ s8[t] \in RwLabels
      BY <1>1, <2>1 DEF Rw!Spurious, Rw!spurious
    <3> QED BY <3>1, ZenonT(30)
  <2>2. CASE Rw!Sleep(t)
    BY <2>2 DEF Rw!Sleep, Rw!futex_wait, Rw!wait_returns, Rw!futex_wake, RwLabels
  <2> QED BY <2>1, <2>2
<1>4. s8'[t] = label /\ \A u \in Thread \ {t} : s8'[u] = s8[u]
  BY <1>1, <1>3
<1>5. \/ s9' = {}
      \/ s9' = s9 \cup {t} /\ Rw!State = s4[t] /\ s8[t] = "futex_wait"
      \/ s9' \subseteq s9 /\ (s8[t] # "futex_wake" \/ s8' = s8)
  <2>1. CASE Rw!Spurious(t)
    BY <2>1 DEF Rw!Spurious, Rw!spurious
  <2>2. CASE Rw!Sleep(t)
    BY <2>2 DEF Rw!Sleep, Rw!futex_wait, Rw!wait_returns, Rw!futex_wake
  <2> QED BY <2>1, <2>2
<1>6. s9' \subseteq Thread
  BY <1>1, <1>5
<1>7. Rw!TypeOK'
  BY <1>1, <1>2, <1>3, <1>6, RwTypes DEF Rw!TypeOK, RwLabels
<1>8. Rw!Holders' = Rw!Holders /\ \A u \in Thread : (Rw!Writes(u)' <=> Rw!Writes(u))
  BY <1>2, <1>3, <1>4 DEF Rw!Holders, Rw!Writes
<1>9. RwWord' /\ RwUnlock'
  <2>1. Rw!Holders \subseteq Thread /\ \A u \in Rw!Holders : s8'[u] = s8[u]
    BY <1>3, <1>4 DEF Rw!Holders
  <2>2. RwUnlock'
    BY <1>8, <2>1 DEF RwUnlock
  <2>3. RwWord'
    BY <1>2, <1>8, <2>1 DEF RwWord
  <2> QED BY <2>2, <2>3
<1>10. Rw!NoLostWakeup'
  <2>1. CASE s9' = s9 \cup {t} /\ Rw!State = s4[t] /\ s8[t] = "futex_wait"
    <3>1. Rw!State.count = s1
      BY DEF Rw!State
    <3>2. s1 > 0
      BY <2>1, <3>1
    <3> QED BY <1>2, <3>2 DEF Rw!NoLostWakeup
  <2>2. CASE s9' = {}
    BY <2>2 DEF Rw!NoLostWakeup
  <2>3. CASE s9' \subseteq s9 /\ (s8[t] # "futex_wake" \/ s8' = s8)
    BY <1>2, <1>4, <2>3 DEF Rw!NoLostWakeup
  <2> QED BY <1>5, <2>1, <2>2, <2>3
<1>11. \A u \in Thread : s8'[u] = "futex_wait" => s4'[u].count > 0
  BY <1>2, <1>3, <1>4
<1> QED BY <1>7, <1>9, <1>10, <1>11

(* The readers and writers of any number of threads exclude each other,    *)
(* unlock releases what its caller has, and nobody sleeps on a free lock.  *)
LEMMA RwIsSound ==
  PartsSpec => [](kind = "rwlock" => RwInv)
<1> DEFINE Inv == kind = "rwlock" => RwInv
<1>1. PartsInit => Inv
  <2> SUFFICES ASSUME Rw!Init PROVE RwInv
    BY DEF PartsInit
  <2>1. EXCLUSIVE \in Nat
    BY RwFinite
  <2>2. Rw!State \in RwWords
    <3>1. 0 \in 0..EXCLUSIVE
      BY <2>1
    <3> QED BY <3>1, ZenonT(30) DEF Rw!Init, Rw!State, RwWords
  <2>3. s2 \in BOOLEAN
    BY ZenonT(30) DEF Rw!Init
  <2>4. Rw!TypeOK
    BY <2>1, <2>2, <2>3, RwTypes DEF Rw!Init, RwLabels, RwOps
  <2>5. Rw!Holders = {}
    BY DEF Rw!Init, Rw!Holders
  <2> QED BY <2>4, <2>5, FS_EmptySet DEF RwInv, RwWord, RwUnlock, Rw!Init, Rw!NoLostWakeup
<1>2. Inv /\ [PartsNext /\ UNCHANGED kind]_<<kind, slots>> => Inv'
  <2> SUFFICES ASSUME Inv, [PartsNext /\ UNCHANGED kind]_<<kind, slots>>, kind' = "rwlock" PROVE RwInv'
    OBVIOUS
  <2>1. kind = "rwlock" /\ RwInv
    OBVIOUS
  <2>2. CASE UNCHANGED slots
    BY <2>1, <2>2 DEF slots, RwInv, Rw!TypeOK, RwWord, RwUnlock, Rw!NoLostWakeup, Rw!Holders, Rw!Writes
  <2>3. CASE PartsNext
    <3>1. Rw!Next
      BY <2>1, <2>3 DEF PartsNext
    <3> QED BY <2>1, <3>1, RwAccess, RwSleeps DEF Rw!Next, Rw!Step
  <2> QED BY <2>2, <2>3
<1> HIDE DEF Inv
<1>3. PartsSpec => []Inv
  BY <1>1, <1>2, PTL DEF PartsSpec
<1> QED BY <1>3 DEF Inv

(* pthread_mutex_t, pthread_rwlock_t and sem_t keep their promises for any *)
(* number of threads, any depth of recursion and any number of posts.      *)
THEOREM LocksAreSound == PartsSpec => []LocksSound
<1>1. (kind = "mutex" => RlctInv) /\ (kind = "rwlock" => RwInv) /\ (kind = "semaphore" => SemInv)
        => LocksSound
  BY RwWordMeans DEF LocksSound, RlctInv, RwInv, SemInv
<1> QED BY <1>1, RlctIsSound, RwIsSound, SemIsSound, PTL

-----------------------------------------------------------------------------
(* Hpet                                                                    *)

(* What has been read are the halves of values the counter had, in this    *)
(* order, since the call began.                                            *)
HpetInv ==
  /\ Timer!TypeOK
  /\ Timer!TicksWithinCall
  /\ s5 <= s1
  /\ s2 = "low" => \E c \in s5 .. s1 : s3 = c \div HalfRange
  /\ s2 = "high2" => \E c, d \in s5 .. s1 : c <= d /\ s3 = c \div HalfRange /\ s4 = d % HalfRange

(* Two halves that belong to values c <= d with the high half of a third   *)
(* one that is not below them are those of d.                              *)
LEMMA HalvesMatch ==
  ASSUME NEW c \in Nat, NEW d \in Nat, NEW e \in Nat, c <= d, d <= e,
         c \div HalfRange = e \div HalfRange
  PROVE  (c \div HalfRange) * HalfRange + (d % HalfRange) = d
<1> USE PartsAssumption
<1>1. c \div HalfRange <= d \div HalfRange /\ d \div HalfRange <= e \div HalfRange
  BY QuotientMonotonic
<1>2. /\ d \div HalfRange \in Nat /\ c \div HalfRange \in Nat
      /\ d = HalfRange * (d \div HalfRange) + (d % HalfRange)
  BY DivisionNat, ZenonT(30)
<1>3. c \div HalfRange = d \div HalfRange
  <2> DEFINE p == c \div HalfRange
             q == d \div HalfRange
  <2>1. p \in Nat /\ q \in Nat /\ p <= q /\ q <= p
    BY <1>1, <1>2
  <2> HIDE DEF p, q
  <2>2. p = q
    BY <2>1
  <2> QED BY <2>2 DEF p, q
<1>4. (d \div HalfRange) * HalfRange = HalfRange * (d \div HalfRange)
  <2> DEFINE q == d \div HalfRange
  <2>1. q \in Nat
    BY <1>2
  <2> HIDE DEF q
  <2>2. q * HalfRange = HalfRange * q
    BY <2>1
  <2> QED BY <2>2 DEF q
<1> QED BY <1>2, <1>3, <1>4

(* Every step keeps this.                                                  *)
LEMMA HpetStep ==
  ASSUME HpetInv, Timer!Next
  PROVE  HpetInv'
<1> USE PartsAssumption DEF HpetInv
<1>1. /\ s1 \in 0..TicksBound /\ s5 \in 0..TicksBound /\ s6 \in 0..TicksBound
      /\ s3 \in 0..TicksBound /\ s4 \in 0..TicksBound
      /\ s2 \in {"idle", "high1", "low", "high2"}
  BY DEF Timer!TypeOK
<1>2. /\ s1 \div HalfRange \in 0..TicksBound /\ s1 % HalfRange \in 0..TicksBound
  <2> DEFINE q == s1 \div HalfRange
             m == s1 % HalfRange
  <2>1. q \in Nat /\ m \in 0..(HalfRange - 1) /\ s1 = HalfRange * q + m
    <3>1. s1 \in Nat /\ HalfRange \in Nat \ {0}
      BY <1>1
    <3> QED BY ONLY <3>1, DivisionNat, ZenonT(30)
  <2> HIDE DEF q, m
  <2>2. HalfRange * q >= q
    BY <2>1
  <2>3. q <= s1 /\ m <= s1
    BY <2>1, <2>2
  <2>4. q \in 0..TicksBound /\ m \in 0..TicksBound
    BY <1>1, <2>1, <2>3
  <2> QED BY <2>4 DEF q, m
<1>3. CASE Timer!count
  <2>1. s1' \in 0..TicksBound /\ s1 <= s1' /\ UNCHANGED <<s2, s3, s4, s5, s6>>
    BY <1>1, <1>3 DEF Timer!count
  <2>2. Timer!TypeOK' /\ Timer!TicksWithinCall' /\ s5' <= s1'
    BY <1>1, <2>1 DEF Timer!TypeOK, Timer!TicksWithinCall
  <2>3. s5 .. s1 \subseteq s5' .. s1'
    BY <1>1, <2>1
  <2>4. s2' = "low" => \E c \in s5' .. s1' : s3' = c \div HalfRange
    BY <2>1, <2>3
  <2>5. s2' = "high2" => \E c, d \in s5' .. s1' : c <= d /\ s3' = c \div HalfRange /\ s4' = d % HalfRange
    BY <2>1, <2>3
  <2> QED BY <2>2, <2>4, <2>5
<1>4. CASE Timer!elapsed_ticks
  BY <1>1, <1>4 DEF Timer!elapsed_ticks, Timer!TypeOK, Timer!TicksWithinCall
<1>5. CASE Timer!read_high1
  <2>1. s2' = "low" /\ s3' = s1 \div HalfRange /\ UNCHANGED <<s1, s4, s5, s6>>
    BY <1>5 DEF Timer!read_high1, Timer!High
  <2>2. s1 \in s5' .. s1'
    BY <1>1, <2>1
  <2>3. \E c \in s5' .. s1' : s3' = c \div HalfRange
    BY <2>1, <2>2
  <2>4. Timer!TypeOK'
    BY <1>1, <1>2, <2>1 DEF Timer!TypeOK
  <2>5. s2' # "idle" /\ s2' # "high2"
    BY ONLY <2>1, SMTT(30)
  <2>6. s5' <= s1'
    BY <2>1
  <2> QED BY <2>3, <2>4, <2>5, <2>6, ZenonT(30) DEF Timer!TicksWithinCall
<1>6. CASE Timer!read_low
  <2>1. s2 = "low" /\ s2' = "high2" /\ s4' = s1 % HalfRange /\ UNCHANGED <<s1, s3, s5, s6>>
    BY <1>6 DEF Timer!read_low, Timer!Low
  <2>2. PICK c \in s5 .. s1 : s3 = c \div HalfRange
    BY <2>1
  <2>3. s1 \in s5' .. s1' /\ c \in s5' .. s1' /\ c <= s1
    BY <1>1, <2>1, <2>2
  <2>4. \E a, b \in s5' .. s1' : a <= b /\ s3' = a \div HalfRange /\ s4' = b % HalfRange
    BY <2>1, <2>2, <2>3
  <2>5. Timer!TypeOK'
    BY <1>1, <1>2, <2>1 DEF Timer!TypeOK
  <2> QED BY <1>1, <2>1, <2>4, <2>5, ZenonT(30) DEF Timer!TicksWithinCall
<1>7. CASE Timer!read_high2
  <2>1. s2 = "high2" /\ UNCHANGED <<s1, s3, s4, s5>>
    BY <1>7 DEF Timer!read_high2
  <2>2. CASE s3 # s1 \div HalfRange
    <3>1. s2' = "high1" /\ s6' = s6
      BY <1>7, <2>2 DEF Timer!read_high2, Timer!High
    <3> QED BY <1>1, <2>1, <3>1 DEF Timer!TypeOK, Timer!TicksWithinCall
  <2>3. CASE s3 = s1 \div HalfRange
    <3>1. s2' = "idle" /\ s6' = s3 * HalfRange + s4
      BY <1>7, <2>3 DEF Timer!read_high2, Timer!High
    <3>2. PICK c \in s5 .. s1, d \in s5 .. s1 : c <= d /\ s3 = c \div HalfRange /\ s4 = d % HalfRange
      BY <2>1
    <3>3. c \in Nat /\ d \in Nat /\ s1 \in Nat /\ d <= s1
      BY <1>1, <3>2
    <3>4. s6' = d
      BY <2>3, <3>1, <3>2, <3>3, HalvesMatch
    <3> QED BY <1>1, <2>1, <3>1, <3>2, <3>4 DEF Timer!TypeOK, Timer!TicksWithinCall
  <2> QED BY <2>2, <2>3
<1> QED BY <1>3, <1>4, <1>5, <1>6, <1>7 DEF Timer!Next

(* For any width of the halves, however the counter runs between the       *)
(* reads, elapsed_ticks returns a value the counter had during the call.   *)
LEMMA HpetIsExact ==
  PartsSpec => [](kind = "hpet" => HpetInv)
<1> DEFINE Inv == kind = "hpet" => HpetInv
<1>1. PartsInit => Inv
  BY PartsAssumption DEF PartsInit, HpetInv, Timer!Init, Timer!TypeOK, Timer!TicksWithinCall
<1>2. Inv /\ [PartsNext /\ UNCHANGED kind]_<<kind, slots>> => Inv'
  <2> SUFFICES ASSUME Inv, [PartsNext /\ UNCHANGED kind]_<<kind, slots>>, kind' = "hpet" PROVE HpetInv'
    OBVIOUS
  <2>1. kind = "hpet" /\ HpetInv
    OBVIOUS
  <2>2. CASE UNCHANGED slots
    BY <2>1, <2>2 DEF slots, HpetInv, Timer!TypeOK, Timer!TicksWithinCall
  <2>3. CASE PartsNext
    <3>1. Timer!Next
      BY <2>1, <2>3 DEF PartsNext
    <3> QED BY <2>1, <3>1, HpetStep
  <2> QED BY <2>2, <2>3
<1> HIDE DEF Inv
<1>3. PartsSpec => []Inv
  BY <1>1, <1>2, PTL DEF PartsSpec
<1> QED BY <1>3 DEF Inv

-----------------------------------------------------------------------------
(* Rtc                                                                     *)

(* The digits of a number below 80, alone and with the bit of the          *)
(* afternoon.                                                              *)
LEMMA RtcDigits ==
  ASSUME NEW v \in 0..79, NEW c, c = (v \div 10) * 16 + (v % 10)
  PROVE  Clock!rtc_bcd_to_bin(c) = v /\ Clock!rtc_bcd_to_bin(c + 128) = v + 128
<1> DEFINE q == v \div 10
           m == v % 10
<1>1. q \in 0..7 /\ m \in 0..9 /\ v = 10 * q + m
  OBVIOUS
<1>2. c = q * 16 + m
  OBVIOUS
<1> HIDE DEF q, m
<1>3. c \in 0..127 /\ c % 128 = c /\ (c + 128) % 128 = c /\ c \div 16 = q /\ c % 16 = m
  BY <1>1, <1>2
<1> QED BY <1>1, <1>3 DEF Clock!rtc_bcd_to_bin

(* The twelve hours of the clock, and which half of the day they are in.   *)
LEMMA RtcHours ==
  ASSUME NEW v \in 0..23, NEW h, h = IF v % 12 = 0 THEN 12 ELSE v % 12
  PROVE  /\ h \in 1..12
         /\ v < 12 => ((h % 128) % 12) + 12 * (h \div 128) = v
         /\ v >= 12 => (((h + 128) % 128) % 12) + 12 * ((h + 128) \div 128) = v
OBVIOUS

(* What the clock counts in a field.                                       *)
LEMMA RtcValues ==
  ASSUME Clock!TypeOK
  PROVE  s2 \in 0..79 /\ (s1 = "hour" => s2 \in 0..23)
<1>1. DOMAIN Clock!Values = {"second", "minute", "hour", "day", "month", "year"}
  BY DEF Clock!Values
<1>2. /\ Clock!Values["second"] = 0..59 /\ Clock!Values["minute"] = 0..59 /\ Clock!Values["hour"] = 0..23
      /\ Clock!Values["day"] = 1..31 /\ Clock!Values["month"] = 1..12 /\ Clock!Values["year"] = 0..LastYear
  BY DEF Clock!Values
<1>3. s1 \in DOMAIN Clock!Values /\ s2 \in Clock!Values[s1]
  BY DEF Clock!TypeOK
<1>4. 0..LastYear \subseteq 0..79
  BY PartsAssumption
<1>5. s2 \in 0..79
  <2>1. 0..59 \subseteq 0..79 /\ 0..23 \subseteq 0..79 /\ 1..31 \subseteq 0..79 /\ 1..12 \subseteq 0..79
    OBVIOUS
  <2>2. CASE s1 = "second" \/ s1 = "minute"
    BY ONLY <1>2, <1>3, <2>1, <2>2, ZenonT(30)
  <2>3. CASE s1 = "hour"
    BY ONLY <1>2, <1>3, <2>1, <2>3, ZenonT(30)
  <2>4. CASE s1 = "day" \/ s1 = "month"
    BY ONLY <1>2, <1>3, <2>1, <2>4, ZenonT(30)
  <2>5. CASE s1 = "year"
    BY ONLY <1>2, <1>3, <1>4, <2>5, ZenonT(30)
  <2> QED BY ONLY <1>1, <1>3, <2>2, <2>3, <2>4, <2>5, SMTT(30)
<1>6. s1 = "hour" => s2 \in 0..23
  BY ONLY <1>2, <1>3, ZenonT(30)
<1> QED BY <1>5, <1>6

(* The field that is read is the one the clock counts, in every format.    *)
LEMMA RtcStep ==
  ASSUME Clock!TypeOK, Clock!new
  PROVE  s5' = s2
<1>1. s2 \in 0..79 /\ (s1 = "hour" => s2 \in 0..23)
  BY RtcValues
<1>2. CASE s1 # "hour" \/ s4
  <2>1. Clock!get_rtc_register = Clock!Coded(s2)
    BY <1>2 DEF Clock!get_rtc_register
  <2>2. CASE s3
    BY <1>2, <2>1, <2>2 DEF Clock!new, Clock!Coded
  <2>3. CASE ~s3
    <3>1. Clock!Coded(s2) = (s2 \div 10) * 16 + (s2 % 10)
      BY <2>3 DEF Clock!Coded
    <3>2. Clock!rtc_bcd_to_bin(Clock!Coded(s2)) = s2
      BY <1>1, <3>1, RtcDigits
    <3> QED BY <1>2, <2>1, <2>3, <3>2 DEF Clock!new
  <2> QED BY <2>2, <2>3
<1>3. CASE s1 = "hour" /\ ~s4
  <2> DEFINE h == IF s2 % 12 = 0 THEN 12 ELSE s2 % 12
             bin == IF s2 >= 12 THEN h + 128 ELSE h
  <2>1. h \in 1..12 /\ ((bin % 128) % 12) + 12 * (bin \div 128) = s2
    BY <1>1, <1>3, RtcHours
  <2>2. Clock!get_rtc_register = Clock!Coded(h) + (IF s2 >= 12 THEN 128 ELSE 0)
    BY <1>3 DEF Clock!get_rtc_register
  <2>3. s3 => Clock!get_rtc_register = bin
    BY <2>1, <2>2 DEF Clock!Coded
  <2>4. ~s3 => Clock!rtc_bcd_to_bin(Clock!get_rtc_register) = bin
    <3> SUFFICES ASSUME ~s3 PROVE Clock!rtc_bcd_to_bin(Clock!get_rtc_register) = bin
      OBVIOUS
    <3>1. Clock!Coded(h) = (h \div 10) * 16 + (h % 10)
      BY DEF Clock!Coded
    <3>2. h \in 0..79
      BY <2>1
    <3> HIDE DEF h
    <3>3. /\ Clock!rtc_bcd_to_bin(Clock!Coded(h)) = h
          /\ Clock!rtc_bcd_to_bin(Clock!Coded(h) + 128) = h + 128
      BY <3>1, <3>2, RtcDigits
    <3>4. Clock!Coded(h) + 0 = Clock!Coded(h)
      BY <3>1, <3>2
    <3> QED BY <2>2, <3>3, <3>4
  <2> HIDE DEF h, bin
  <2>5. s5' = ((bin % 128) % 12) + 12 * (bin \div 128)
    BY <1>3, <2>3, <2>4 DEF Clock!new
  <2> QED BY <2>1, <2>5
<1> QED BY <1>2, <1>3

(* Every field the driver decodes is what the clock counts: binary or BCD, *)
(* of 24 hours or of 12, in every year that BCD can hold below the top bit.*)
LEMMA RtcIsExact ==
  PartsSpec => [](kind = "rtc" => Clock!TypeOK /\ Clock!DecodesTime)
<1> DEFINE Inv == kind = "rtc" => Clock!TypeOK /\ Clock!DecodesTime
<1>1. PartsInit => Inv
  <2> SUFFICES ASSUME Clock!Init PROVE Clock!TypeOK /\ Clock!DecodesTime
    BY DEF PartsInit
  <2>1. {s3, s4} \subseteq BOOLEAN
    BY ZenonT(30) DEF Clock!Init
  <2> QED BY <2>1 DEF Clock!Init, Clock!TypeOK, Clock!DecodesTime, Clock!Unread
<1>2. Inv /\ [PartsNext /\ UNCHANGED kind]_<<kind, slots>> => Inv'
  <2> SUFFICES ASSUME Inv, [PartsNext /\ UNCHANGED kind]_<<kind, slots>>, kind' = "rtc"
               PROVE  Clock!TypeOK' /\ Clock!DecodesTime'
    OBVIOUS
  <2>1. kind = "rtc" /\ Clock!TypeOK /\ Clock!DecodesTime
    OBVIOUS
  <2>2. CASE UNCHANGED slots
    BY <2>1, <2>2 DEF slots, Clock!TypeOK, Clock!DecodesTime
  <2>3. CASE PartsNext
    <3>1. Clock!new
      BY <2>1, <2>3 DEF PartsNext, Clock!Next
    <3>2. s5' = s2 /\ UNCHANGED <<s1, s2, s3, s4>>
      BY <2>1, <3>1, RtcStep DEF Clock!new
    <3>3. s2 \in 0..256
      BY <2>1, RtcValues
    <3>4. {s3', s4'} \subseteq BOOLEAN
      BY <2>1, <3>2, ZenonT(30) DEF Clock!TypeOK
    <3> QED BY <2>1, <3>2, <3>3, <3>4 DEF Clock!TypeOK, Clock!DecodesTime
  <2> QED BY <2>2, <2>3
<1> HIDE DEF Inv
<1>3. PartsSpec => []Inv
  BY <1>1, <1>2, PTL DEF PartsSpec
<1> QED BY <1>3 DEF Inv

-----------------------------------------------------------------------------
(* Mouse                                                                   *)

At == Len(s4) % PacketSize
Bytes == FirstBytes \cup MotionBytes

(* A driver that is out of step has an index that counts the clean bytes,  *)
(* or waits for the next packet with index 0.  Once as many clean bytes    *)
(* have come as a packet has and the present one so far, what the driver   *)
(* has put together is the present packet.                                 *)
MouseInv ==
  /\ PS2!TypeOK
  /\ s2 \in [flags : Bytes \cup {0}, move_x : -256..255, move_y : -256..255]
  /\ s1 # At /\ s1 # 0 => s5 <= s1
  /\ s1 # At /\ s1 = 0 => s5 <= PacketSize + At - 1
  /\ s3 => s1 = 0
  /\ Len(s4) = 0 => s5 = 0
  /\ s5 >= PacketSize + Len(s4) =>
       /\ s1 = At
       /\ Len(s4) >= 1 => s2.flags = s4[1]
       /\ Len(s4) >= 2 => PS2!Bit(s4[1], 6) \/ s2.move_x = PS2!Sign_extended(s4[2], PS2!Bit(s4[1], 4))
       /\ Len(s4) >= 3 => PS2!Bit(s4[1], 7) \/ s2.move_y = PS2!Sign_extended(s4[3], PS2!Bit(s4[1], 5))

(* The bytes and packets of the device.                                    *)
LEMMA MouseConstants ==
  /\ PacketSize \in {3, 4}
  /\ Bytes \subseteq 0..255
  /\ \A b \in FirstBytes : (b \div 8) % 2 = 1
BY PartsAssumption DEF Bytes

(* A place in a packet, from the number of bytes sent.                     *)
LEMMA MouseWrap ==
  ASSUME NEW k \in 0 .. PacketSize
  PROVE  k % PacketSize = IF k = PacketSize THEN 0 ELSE k
<1>1. CASE PacketSize = 3
  BY ONLY <1>1, k \in 0 .. PacketSize, SMTT(30)
<1>2. CASE PacketSize = 4
  BY ONLY <1>2, k \in 0 .. PacketSize, SMTT(30)
<1> QED BY ONLY <1>1, <1>2, MouseConstants, SMTT(30)

(* What the invariant says about the property.                             *)
LEMMA MouseMeans ==
  ASSUME MouseInv
  PROVE  PS2!Resynchronises /\ PS2!ReportExact
<1>0. s1 \in 0 .. PacketSize - 1 /\ Len(s4) \in 0 .. PacketSize /\ s5 \in 0 .. 2 * PacketSize
  BY DEF MouseInv, PS2!TypeOK
<1>1. At = (IF Len(s4) = PacketSize THEN 0 ELSE Len(s4))
  BY ONLY <1>0, MouseWrap, ZenonT(30) DEF At
<1>2. s5 >= 2 * PacketSize - 1 => s1 = At
  <2>1. /\ s1 # At /\ s1 # 0 => s5 <= s1
        /\ s1 # At /\ s1 = 0 => s5 <= PacketSize + At - 1
    BY ZenonT(30) DEF MouseInv
  <2> QED BY ONLY <2>1, <1>0, <1>1, MouseConstants, SMTT(30)
<1>3. ASSUME s5 = 2 * PacketSize, s3
      PROVE  Len(s4) = PacketSize
  <2>1. s1 = 0 /\ (Len(s4) = 0 => s5 = 0)
    BY <1>3, ZenonT(30) DEF MouseInv
  <2> QED BY ONLY <2>1, <1>0, <1>1, <1>2, <1>3, MouseConstants, SMTT(30)
<1>4. PS2!ReportExact
  <2> SUFFICES ASSUME s5 = 2 * PacketSize, s3
               PROVE  /\ PS2!Bit(s4[1], 6) \/ s2.move_x = PS2!Sign_extended(s4[2], PS2!Bit(s4[1], 4))
                      /\ PS2!Bit(s4[1], 7) \/ s2.move_y = PS2!Sign_extended(s4[3], PS2!Bit(s4[1], 5))
    BY ZenonT(30) DEF PS2!ReportExact
  <2>1. s5 >= PacketSize + Len(s4) /\ Len(s4) >= 2 /\ Len(s4) >= 3
    BY <1>3, MouseConstants
  <2> QED BY ONLY <2>1, MouseInv, ZenonT(30) DEF MouseInv
<1>5. PS2!Resynchronises
  BY <1>2 DEF PS2!Resynchronises, At
<1> QED BY <1>4, <1>5

(* What the driver makes of a byte.                                        *)
LEMMA MouseByte ==
  ASSUME MouseInv, NEW byte \in Bytes, PS2!process_packet(byte)
  PROVE  /\ s2' \in [flags : Bytes \cup {0}, move_x : -256..255, move_y : -256..255]
         /\ s3' \in BOOLEAN
         /\ IF s1 = 0 /\ ~PS2!Always_one(byte)
            THEN s1' = 0 /\ s3' = FALSE /\ s2' = s2
            ELSE /\ s1' = (IF s1 = PacketSize - 1 THEN 0 ELSE s1 + 1)
                 /\ s3' => s1 = PacketSize - 1
                 /\ s1 = 0 => s2'.flags = byte
                 /\ s1 # 0 => s2'.flags = s2.flags
                 /\ s1 = 1 => PS2!Bit(s2.flags, 6) \/ s2'.move_x = PS2!Sign_extended(byte, PS2!Bit(s2.flags, 4))
                 /\ s1 # 1 => s2'.move_x = s2.move_x
                 /\ s1 = 2 => PS2!Bit(s2.flags, 7) \/ s2'.move_y = PS2!Sign_extended(byte, PS2!Bit(s2.flags, 5))
                 /\ s1 # 2 => s2'.move_y = s2.move_y
<1> USE MouseConstants
<1>1. /\ s1 \in 0 .. PacketSize - 1 /\ byte \in 0..255
      /\ s2 \in [flags : Bytes \cup {0}, move_x : -256..255, move_y : -256..255]
  BY DEF MouseInv, PS2!TypeOK
<1>2. \A b \in BOOLEAN : PS2!Sign_extended(byte, b) \in -256..255
  BY <1>1 DEF PS2!Sign_extended
<1>3. PS2!Bit(s2.flags, 4) \in BOOLEAN /\ PS2!Bit(s2.flags, 5) \in BOOLEAN
  BY ZenonT(30) DEF PS2!Bit
<1> DEFINE x == PS2!Sign_extended(byte, PS2!Bit(s2.flags, 4))
           y == PS2!Sign_extended(byte, PS2!Bit(s2.flags, 5))
<1>4. x \in -256..255 /\ y \in -256..255
  BY ONLY <1>2, <1>3, ZenonT(30)
<1>5. s3' \in BOOLEAN
  BY ZenonT(30) DEF PS2!process_packet
<1>6. CASE s1 = 0 /\ ~PS2!Always_one(byte)
  BY <1>1, <1>5, <1>6 DEF PS2!process_packet
<1>7. CASE ~(s1 = 0 /\ ~PS2!Always_one(byte))
  <2>1. s1' = (s1 + 1) % PacketSize /\ s3' = (s1 = PacketSize - 1)
    BY <1>7 DEF PS2!process_packet
  <2>2. s1' = IF s1 = PacketSize - 1 THEN 0 ELSE s1 + 1
    BY ONLY <1>1, <2>1, MouseWrap, MouseConstants, SMTT(30)
  <2>3. \/ s1 = 0 /\ s2' = [s2 EXCEPT !.flags = byte]
        \/ s1 = 1 /\ ~PS2!Bit(s2.flags, 6) /\ s2' = [s2 EXCEPT !.move_x = x]
        \/ s1 = 2 /\ ~PS2!Bit(s2.flags, 7) /\ s2' = [s2 EXCEPT !.move_y = y]
        \/ s1 = 1 /\ PS2!Bit(s2.flags, 6) /\ s2' = s2
        \/ s1 = 2 /\ PS2!Bit(s2.flags, 7) /\ s2' = s2
        \/ s1 \notin {0, 1, 2} /\ s2' = s2
    BY <1>1, <1>7 DEF PS2!process_packet
  <2> HIDE DEF x, y
  <2>4. /\ s2' \in [flags : Bytes \cup {0}, move_x : -256..255, move_y : -256..255]
        /\ s1 = 0 => s2'.flags = byte
        /\ s1 # 0 => s2'.flags = s2.flags
        /\ s1 = 1 => PS2!Bit(s2.flags, 6) \/ s2'.move_x = x
        /\ s1 # 1 => s2'.move_x = s2.move_x
        /\ s1 = 2 => PS2!Bit(s2.flags, 7) \/ s2'.move_y = y
        /\ s1 # 2 => s2'.move_y = s2.move_y
    BY <1>1, <1>4, <2>3
  <2> QED BY <1>5, <1>7, <2>1, <2>2, <2>4, ZenonT(30) DEF x, y
<1> QED BY <1>6, <1>7, ZenonT(30)

(* How the packet of the device grows by a byte.                           *)
LEMMA MousePacket ==
  ASSUME MouseInv, NEW byte \in PS2!Next_bytes, s4' = Append(PS2!Sent, byte)
  PROVE  /\ byte \in Bytes
         /\ Len(s4) \in 0 .. PacketSize /\ At \in 0 .. PacketSize - 1
         /\ At = (IF Len(s4) = PacketSize THEN 0 ELSE Len(s4))
         /\ s4' \in Seq(Bytes) /\ Len(s4') = At + 1
         /\ At' = IF At = PacketSize - 1 THEN 0 ELSE At + 1
         /\ s4'[At + 1] = byte
         /\ \A i \in 1 .. At : s4'[i] = s4[i]
         /\ PS2!Sent = <<>> <=> At = 0
         /\ At = 0 => PS2!Always_one(byte)
<1> USE MouseConstants
<1>1. s4 \in Seq(Bytes) /\ Len(s4) \in 0 .. PacketSize
  BY DEF MouseInv, PS2!TypeOK, PS2!Byte, Bytes
<1>2. At = (IF Len(s4) = PacketSize THEN 0 ELSE Len(s4)) /\ At \in 0 .. PacketSize - 1
  BY ONLY <1>1, MouseWrap, MouseConstants, SMTT(30) DEF At
<1>3. byte \in Bytes /\ (PS2!Sent = <<>> => byte \in FirstBytes)
  BY DEF PS2!Next_bytes, Bytes
<1>4. PS2!Sent \in Seq(Bytes) /\ Len(PS2!Sent) = At /\ \A i \in 1 .. At : PS2!Sent[i] = s4[i]
  BY <1>1, <1>2 DEF PS2!Sent
<1>5. PS2!Sent = <<>> <=> At = 0
  BY <1>4
<1>6. At = 0 => PS2!Always_one(byte)
  <2> SUFFICES ASSUME At = 0 PROVE PS2!Always_one(byte)
    OBVIOUS
  <2>1. byte \in FirstBytes
    BY <1>3, <1>5
  <2>2. (byte \div 8) % 2 = 1 /\ 2 ^ 3 = 8
    BY <2>1
  <2> QED BY <2>2 DEF PS2!Always_one, PS2!Bit
<1> HIDE DEF At
<1>7. /\ s4' \in Seq(Bytes) /\ Len(s4') = At + 1 /\ s4'[At + 1] = byte
      /\ \A i \in 1 .. At : s4'[i] = s4[i]
  BY <1>2, <1>3, <1>4
<1>8. At' = IF At = PacketSize - 1 THEN 0 ELSE At + 1
  <2>1. At' = Len(s4') % PacketSize
    BY DEF At
  <2>2. Len(s4') \in 0 .. PacketSize /\ Len(s4') = At + 1
    BY <1>2, <1>7
  <2>3. At' = IF Len(s4') = PacketSize THEN 0 ELSE Len(s4')
    BY ONLY <2>1, <2>2, MouseWrap, ZenonT(30)
  <2> QED BY ONLY <1>2, <2>2, <2>3, MouseConstants, SMTT(30)
<1> QED BY <1>1, <1>2, <1>3, <1>5, <1>6, <1>7, <1>8

(* A byte that comes through keeps the invariant.                          *)
LEMMA MouseReceives ==
  ASSUME MouseInv, NEW byte \in PS2!Next_bytes, PS2!mouse_interrupt(byte)
  PROVE  MouseInv'
<1> USE MouseConstants
<1>0. s4' = Append(PS2!Sent, byte) /\ PS2!process_packet(byte)
  BY DEF PS2!mouse_interrupt
<1>1. /\ byte \in Bytes
      /\ Len(s4) \in 0 .. PacketSize /\ At \in 0 .. PacketSize - 1
      /\ At = (IF Len(s4) = PacketSize THEN 0 ELSE Len(s4))
      /\ s4' \in Seq(Bytes) /\ Len(s4') = At + 1
      /\ At' = IF At = PacketSize - 1 THEN 0 ELSE At + 1
      /\ s4'[At + 1] = byte
      /\ \A i \in 1 .. At : s4'[i] = s4[i]
      /\ PS2!Sent = <<>> <=> At = 0
      /\ At = 0 => PS2!Always_one(byte)
  BY <1>0, MousePacket
<1>2. s1 \in 0 .. PacketSize - 1 /\ s5 \in 0 .. 2 * PacketSize
  BY DEF MouseInv, PS2!TypeOK
<1>3. /\ s2' \in [flags : Bytes \cup {0}, move_x : -256..255, move_y : -256..255]
      /\ s3' \in BOOLEAN
      /\ IF s1 = 0 /\ ~PS2!Always_one(byte)
         THEN s1' = 0 /\ s3' = FALSE /\ s2' = s2
         ELSE /\ s1' = (IF s1 = PacketSize - 1 THEN 0 ELSE s1 + 1)
              /\ s3' => s1 = PacketSize - 1
              /\ s1 = 0 => s2'.flags = byte
              /\ s1 # 0 => s2'.flags = s2.flags
              /\ s1 = 1 => PS2!Bit(s2.flags, 6) \/ s2'.move_x = PS2!Sign_extended(byte, PS2!Bit(s2.flags, 4))
              /\ s1 # 1 => s2'.move_x = s2.move_x
              /\ s1 = 2 => PS2!Bit(s2.flags, 7) \/ s2'.move_y = PS2!Sign_extended(byte, PS2!Bit(s2.flags, 5))
              /\ s1 # 2 => s2'.move_y = s2.move_y
  BY <1>0, <1>1, MouseByte, ZenonT(30)
<1>4. s5' = IF At # 0 /\ PS2!Always_one(byte) THEN 0 ELSE IF s5 < 2 * PacketSize THEN s5 + 1 ELSE s5
  BY <1>1 DEF PS2!mouse_interrupt
<1>5. s1' \in 0 .. PacketSize - 1 /\ s5' \in 0 .. 2 * PacketSize
  BY <1>2, <1>3, <1>4
<1>6. PS2!TypeOK'
  <2>1. s2'.flags \in Bytes \cup {0} /\ s2'.move_x \in -256..255 /\ s2'.move_y \in -256..255
    BY <1>3
  <2>2. s4' \in Seq(Bytes) /\ Len(s4') \in 0 .. PacketSize
    BY <1>1
  <2>3. s3' \in BOOLEAN
    BY <1>3, ZenonT(30)
  <2> QED BY ONLY <1>5, <2>1, <2>2, <2>3, SMTT(30) DEF PS2!TypeOK, PS2!Byte, Bytes
<1>a. /\ At \in 0 .. PacketSize - 1 /\ Len(s4') = At + 1
      /\ At' = IF At = PacketSize - 1 THEN 0 ELSE At + 1
      /\ At = 0 => PS2!Always_one(byte)
      /\ s1' = IF (s1 = 0 /\ ~PS2!Always_one(byte)) \/ s1 = PacketSize - 1 THEN 0 ELSE s1 + 1
  BY <1>1, <1>3
<1>7. /\ s1 # At /\ s1 # 0 => s5 <= s1
      /\ s1 # At /\ s1 = 0 => s5 <= PacketSize + At - 1
  BY DEF MouseInv
<1>8. /\ s1' # At' /\ s1' # 0 => s5' <= s1'
      /\ s1' # At' /\ s1' = 0 => s5' <= PacketSize + At' - 1
  BY ONLY <1>a, <1>2, <1>4, <1>7, MouseConstants, SMTT(30)
<1>9. s3' => s1' = 0
  BY <1>3
<1>10. ASSUME s5' >= PacketSize + Len(s4')
       PROVE  /\ s1 = At /\ (At = 0 => PS2!Always_one(byte)) /\ s1' = At'
              /\ s5 >= PacketSize + At
  BY ONLY <1>a, <1>2, <1>4, <1>7, <1>10, MouseConstants, SMTT(30)
<1>11. ASSUME s5' >= PacketSize + Len(s4')
       PROVE  /\ s2'.flags = s4'[1]
              /\ Len(s4') >= 2 => PS2!Bit(s4'[1], 6) \/ s2'.move_x = PS2!Sign_extended(s4'[2], PS2!Bit(s4'[1], 4))
              /\ Len(s4') >= 3 => PS2!Bit(s4'[1], 7) \/ s2'.move_y = PS2!Sign_extended(s4'[3], PS2!Bit(s4'[1], 5))
  <2>1. s1 = At /\ (At = 0 => PS2!Always_one(byte)) /\ s5 >= PacketSize + At
    BY <1>10, <1>11
  <2>2. At # 0 => Len(s4) = At
    BY <1>1
  <2>3. /\ At >= 1 => s2.flags = s4[1] /\ s4'[1] = s4[1]
        /\ At >= 2 => s4'[2] = s4[2] /\ (PS2!Bit(s4[1], 6) \/ s2.move_x = PS2!Sign_extended(s4[2], PS2!Bit(s4[1], 4)))
        /\ At >= 3 => s4'[3] = s4[3] /\ (PS2!Bit(s4[1], 7) \/ s2.move_y = PS2!Sign_extended(s4[3], PS2!Bit(s4[1], 5)))
    <3>1. At \in Nat /\ \A i \in 1 .. At : s4'[i] = s4[i]
      BY <1>1
    <3>2. /\ At >= 1 => s4'[1] = s4[1]
          /\ At >= 2 => s4'[2] = s4[2]
          /\ At >= 3 => s4'[3] = s4[3]
      BY ONLY <3>1, SMTT(30)
    <3>3. s5 >= PacketSize + Len(s4) \/ At = 0
      BY ONLY <2>1, <2>2, SMTT(30)
    <3>4. At # 0 =>
            /\ Len(s4) >= 1 => s2.flags = s4[1]
            /\ Len(s4) >= 2 => PS2!Bit(s4[1], 6) \/ s2.move_x = PS2!Sign_extended(s4[2], PS2!Bit(s4[1], 4))
            /\ Len(s4) >= 3 => PS2!Bit(s4[1], 7) \/ s2.move_y = PS2!Sign_extended(s4[3], PS2!Bit(s4[1], 5))
      BY ONLY <3>3, MouseInv, ZenonT(30) DEF MouseInv
    <3> QED BY ONLY <2>2, <3>1, <3>2, <3>4, SMTT(30)
  <2>4. CASE At = 0
    <3>1. Len(s4') = 1 /\ s4'[1] = byte
      BY <1>1, <2>4
    <3>2. s2'.flags = byte
      BY <1>3, <2>1, <2>4
    <3> QED BY ONLY <3>1, <3>2, SMTT(30)
  <2>5. CASE At = 1
    <3>1. Len(s4') = 2 /\ s4'[2] = byte /\ s4'[1] = s4[1] /\ s2.flags = s4[1]
      <4>1. Len(s4') = At + 1 /\ s4'[At + 1] = byte
        BY <1>1
      <4>2. At + 1 = 2 /\ At >= 1
        BY ONLY <2>5, SMTT(30)
      <4> QED BY ONLY <4>1, <4>2, <2>3, ZenonT(30)
    <3>2. /\ s2'.flags = s2.flags
          /\ PS2!Bit(s2.flags, 6) \/ s2'.move_x = PS2!Sign_extended(byte, PS2!Bit(s2.flags, 4))
      BY <1>3, <2>1, <2>5
    <3> QED BY ONLY <3>1, <3>2, SMTT(30)
  <2>6. CASE At = 2
    <3>1. /\ s4'[3] = byte /\ s4'[1] = s4[1] /\ s4'[2] = s4[2] /\ s2.flags = s4[1]
          /\ PS2!Bit(s4[1], 6) \/ s2.move_x = PS2!Sign_extended(s4[2], PS2!Bit(s4[1], 4))
      <4>1. s4'[At + 1] = byte
        BY <1>1
      <4>2. At + 1 = 3 /\ At >= 1 /\ At >= 2
        BY ONLY <2>6, SMTT(30)
      <4> QED BY ONLY <4>1, <4>2, <2>3, ZenonT(30)
    <3>2. /\ s2'.flags = s2.flags /\ s2'.move_x = s2.move_x
          /\ PS2!Bit(s2.flags, 7) \/ s2'.move_y = PS2!Sign_extended(byte, PS2!Bit(s2.flags, 5))
      BY <1>3, <2>1, <2>6
    <3> QED BY ONLY <3>1, <3>2, ZenonT(30)
  <2>7. CASE At = 3
    <3>1. /\ s4'[3] = s4[3] /\ s4'[1] = s4[1] /\ s4'[2] = s4[2] /\ s2.flags = s4[1]
          /\ PS2!Bit(s4[1], 6) \/ s2.move_x = PS2!Sign_extended(s4[2], PS2!Bit(s4[1], 4))
          /\ PS2!Bit(s4[1], 7) \/ s2.move_y = PS2!Sign_extended(s4[3], PS2!Bit(s4[1], 5))
      BY ONLY <2>3, <2>7, SMTT(30)
    <3>2. s2'.flags = s2.flags /\ s2'.move_x = s2.move_x /\ s2'.move_y = s2.move_y
      BY <1>3, <2>1, <2>7
    <3> QED BY ONLY <3>1, <3>2, ZenonT(30)
  <2>8. At = 0 \/ At = 1 \/ At = 2 \/ At = 3
    <3>1. At \in 0 .. PacketSize - 1 /\ PacketSize \in {3, 4}
      BY <1>1
    <3> QED BY ONLY <3>1, SMTT(30)
  <2> QED BY ONLY <2>4, <2>5, <2>6, <2>7, <2>8, SMTT(30)
<1>12. s2' \in [flags : Bytes \cup {0}, move_x : -256..255, move_y : -256..255]
  BY <1>3, ZenonT(30)
<1>13. Len(s4') # 0
  BY ONLY <1>a, SMTT(30)
<1> QED BY ONLY <1>6, <1>8, <1>9, <1>10, <1>11, <1>12, <1>13, ZenonT(30) DEF MouseInv

(* So does one that is lost.                                               *)
LEMMA MouseLoses ==
  ASSUME MouseInv, NEW byte \in PS2!Next_bytes, PS2!lost(byte)
  PROVE  MouseInv'
<1> USE MouseConstants
<1>1. /\ s4' \in Seq(Bytes) /\ Len(s4') = At + 1 /\ At \in 0 .. PacketSize - 1
      /\ At' = IF At = PacketSize - 1 THEN 0 ELSE At + 1
  BY MousePacket DEF PS2!lost
<1>2. s5' = 0 /\ s3' = FALSE /\ s1' = s1 /\ s2' = s2
  BY DEF PS2!lost
<1>3. s1 \in 0 .. PacketSize - 1 /\ s2 \in [flags : Bytes \cup {0}, move_x : -256..255, move_y : -256..255]
  BY DEF MouseInv, PS2!TypeOK
<1>4. PS2!TypeOK'
  <2>1. s3' \in BOOLEAN
    BY <1>2, ZenonT(30)
  <2>2. s1' \in 0 .. PacketSize - 1 /\ s5' \in 0 .. 2 * PacketSize
    BY <1>2, <1>3
  <2>3. s2'.flags \in Bytes \cup {0} /\ s2'.move_x \in -256..255 /\ s2'.move_y \in -256..255
    BY ONLY <1>2, <1>3, SMTT(30)
  <2>4. s4' \in Seq(Bytes) /\ Len(s4') \in 0 .. PacketSize
    BY <1>1
  <2> QED BY ONLY <2>1, <2>2, <2>3, <2>4, SMTT(30) DEF PS2!TypeOK, PS2!Byte, Bytes
<1>5. /\ s1' # At' /\ s1' # 0 => s5' <= s1'
      /\ s1' # At' /\ s1' = 0 => s5' <= PacketSize + At' - 1
      /\ ~(s5' >= PacketSize + Len(s4'))
  BY ONLY <1>1, <1>2, <1>3, MouseConstants, SMTT(30)
<1>6. s2' \in [flags : Bytes \cup {0}, move_x : -256..255, move_y : -256..255]
  BY ONLY <1>2, <1>3, ZenonT(30)
<1> QED BY ONLY <1>2, <1>4, <1>5, <1>6, ZenonT(30) DEF MouseInv

(* After a byte is lost the driver is in step with the device again within *)
(* two packets, and reports what the device sent, for packets of three and *)
(* of four bytes and whatever bytes the device sends.                      *)
LEMMA MouseIsExact ==
  PartsSpec => [](kind = "mouse" => MouseInv)
<1> DEFINE Inv == kind = "mouse" => MouseInv
<1>1. PartsInit => Inv
  <2> SUFFICES ASSUME PS2!Init PROVE MouseInv
    BY DEF PartsInit
  <2>1. s3 \in BOOLEAN
    BY ZenonT(30) DEF PS2!Init
  <2>2. s4 \in Seq(Bytes) /\ Len(s4) = 0 /\ s1 = 0 /\ s5 = 0 /\ ~s3
    BY DEF PS2!Init
  <2>3. /\ s2 \in [flags : Bytes \cup {0}, move_x : -256..255, move_y : -256..255]
        /\ s2.flags = 0 /\ s2.move_x = 0 /\ s2.move_y = 0
    BY DEF PS2!Init
  <2>4. PS2!TypeOK
    BY <2>1, <2>2, <2>3, PartsAssumption DEF PS2!TypeOK, PS2!Byte, Bytes
  <2>5. At = 0
    BY <2>2, PartsAssumption DEF At
  <2>6. ~(s5 >= PacketSize + Len(s4))
    BY ONLY <2>2, MouseConstants, SMTT(30)
  <2> QED BY ONLY <2>2, <2>3, <2>4, <2>5, <2>6, ZenonT(30) DEF MouseInv
<1>2. Inv /\ [PartsNext /\ UNCHANGED kind]_<<kind, slots>> => Inv'
  <2> SUFFICES ASSUME Inv, [PartsNext /\ UNCHANGED kind]_<<kind, slots>>, kind' = "mouse" PROVE MouseInv'
    OBVIOUS
  <2>1. kind = "mouse" /\ MouseInv
    OBVIOUS
  <2>2. CASE UNCHANGED slots
    <3>1. UNCHANGED <<s1, s2, s3, s4, s5>>
      BY <2>2 DEF slots
    <3> QED BY ONLY <2>1, <3>1, ZenonT(30) DEF MouseInv, PS2!TypeOK, At
  <2>3. CASE PartsNext
    <3>1. PS2!Next
      BY <2>1, <2>3 DEF PartsNext
    <3> QED BY <2>1, <3>1, MouseReceives, MouseLoses DEF PS2!Next
  <2> QED BY <2>2, <2>3
<1> HIDE DEF Inv
<1>3. PartsSpec => []Inv
  BY <1>1, <1>2, PTL DEF PartsSpec
<1> QED BY <1>3 DEF Inv

(* The drivers of the mouse, the HPET and the real-time clock report what  *)
(* their devices say.                                                      *)
THEOREM DevicesAreExact == PartsSpec => []DevicesExact
<1>1. (kind = "mouse" => MouseInv) /\ (kind = "hpet" => HpetInv)
      /\ (kind = "rtc" => Clock!TypeOK /\ Clock!DecodesTime)
        => DevicesExact
  BY MouseMeans DEF DevicesExact, MouseInv, HpetInv
<1> QED BY <1>1, MouseIsExact, HpetIsExact, RtcIsExact, PTL

-----------------------------------------------------------------------------
(* VCpu                                                                    *)

CpuTimer ==
  [masked : BOOLEAN, periodic : BOOLEAN, vector : Vectors \cup {0}, divide_shift : 0 .. 7,
   initial_count : InitialCounts \cup {0}, last_start : 0 .. Moments, deadline : Nat]

(* A timer t at the moment n that has fired f times since it was started:  *)
(* the deadline of a periodic timer is a whole number of intervals after   *)
(* the start, that of a one-shot timer one interval, until it is past.     *)
TimerOK(t, n, f) ==
  /\ ~t.masked => t.vector \in Vectors
  /\ t.last_start <= n
  /\ t.initial_count = 0 => t.deadline = 0
  /\ t.initial_count # 0 /\ t.periodic => t.deadline = t.last_start + (f + 1) * Cpu!interval(t)
  /\ t.initial_count # 0 /\ ~t.periodic =>
       \/ t.deadline = t.last_start + Cpu!interval(t) /\ f = 0
       \/ t.deadline = 0 /\ n >= t.last_start + Cpu!interval(t)

(* What the guest wrote to the divide register, as a shift.                *)
ShiftOf(dcr) == ((dcr % 4) + 4 * (dcr \div 8) + 1) % 8

CpuInv ==
  /\ Cpu!TypeOK
  /\ Cpu!NeverOverlooked
  /\ s9 \in 0..15 /\ s2.divide_shift = ShiftOf(s9)
  /\ TimerOK(s2, s1, s8)

(* The fields of a timer, and its interval.                                *)
LEMMA CpuInterval ==
  ASSUME NEW t \in CpuTimer
  PROVE  /\ t.masked \in BOOLEAN /\ t.periodic \in BOOLEAN /\ t.vector \in Vectors \cup {0}
         /\ t.divide_shift \in 0..7 /\ t.initial_count \in Nat /\ t.last_start \in 0..Moments /\ t.deadline \in Nat
         /\ 2 ^ t.divide_shift \in Nat \ {0} /\ Cpu!interval(t) \in Nat
         /\ t.initial_count # 0 => Cpu!interval(t) > 0
<1>1. /\ t.masked \in BOOLEAN /\ t.periodic \in BOOLEAN /\ t.vector \in Vectors \cup {0}
      /\ t.divide_shift \in 0..7 /\ t.initial_count \in InitialCounts \cup {0} /\ t.last_start \in 0..Moments /\ t.deadline \in Nat
  <2>1. t.masked \in BOOLEAN
    BY ZenonT(30) DEF CpuTimer
  <2>2. t.periodic \in BOOLEAN
    BY ZenonT(30) DEF CpuTimer
  <2>3. t.vector \in Vectors \cup {0} /\ t.divide_shift \in 0..7 /\ t.initial_count \in InitialCounts \cup {0}
    BY SMT DEF CpuTimer
  <2>4. t.last_start \in 0..Moments /\ t.deadline \in Nat
    BY SMT DEF CpuTimer
  <2> QED BY <2>1, <2>2, <2>3, <2>4, ZenonT(30)
<1>2. t.initial_count \in Nat
  <2>1. t.initial_count \in InitialCounts \cup {0}
    BY <1>1
  <2>2. InitialCounts \subseteq Nat /\ 0 \in Nat
    BY PartsAssumption
  <2> QED BY ONLY <2>1, <2>2, ZenonT(30)
<1>3. 2 ^ t.divide_shift \in Nat \ {0}
  BY <1>1, PowerOfTwo, ZenonT(30)
<1>4. Cpu!interval(t) \in Nat /\ (t.initial_count # 0 => Cpu!interval(t) > 0)
  <2> DEFINE c == t.initial_count
             u == 2 ^ t.divide_shift
  <2>1. c \in Nat /\ u \in Nat \ {0}
    BY <1>2, <1>3
  <2> HIDE DEF c, u
  <2>2. c * u \in Nat /\ (c # 0 => c * u > 0)
    BY <2>1
  <2> QED BY <2>2 DEF c, u, Cpu!interval
<1> QED BY <1>1, <1>2, <1>3, <1>4

(* A timer that is started is not due, and its interval is to come.        *)
LEMMA CpuStarted ==
  ASSUME NEW t \in CpuTimer, s1 \in 0..Moments, t.last_start <= s1, ~t.masked => t.vector \in Vectors,
         NEW r, r = Cpu!start_timer(t)
  PROVE  r \in CpuTimer /\ TimerOK(r, s1, 0) /\ ~Cpu!Due(r) /\ r.divide_shift = t.divide_shift
<1> USE DEF Cpu!start_timer
<1>1. /\ Cpu!interval(t) \in Nat /\ t.initial_count \in Nat /\ t.last_start \in 0..Moments
      /\ (t.initial_count # 0 => Cpu!interval(t) > 0) /\ t.divide_shift \in 0..7
  BY CpuInterval
<1>2. CASE t.initial_count # 0
  <2>1. r = [t EXCEPT !.last_start = s1, !.deadline = s1 + Cpu!interval(t)]
    BY <1>2
  <2>2. s1 + Cpu!interval(t) \in Nat
    BY <1>1
  <2>3. r \in CpuTimer
    BY <2>1, <2>2, ZenonT(30) DEF CpuTimer
  <2>4. /\ r.last_start = s1 /\ r.deadline = s1 + Cpu!interval(t) /\ r.divide_shift = t.divide_shift
        /\ r.initial_count = t.initial_count /\ r.masked = t.masked /\ r.vector = t.vector
    BY <2>1, ZenonT(30) DEF CpuTimer
  <2>5. Cpu!interval(r) = Cpu!interval(t)
    BY <2>4 DEF Cpu!interval
  <2>6. (0 + 1) * Cpu!interval(r) = Cpu!interval(t)
    BY <1>1, <2>5
  <2> QED BY <1>1, <1>2, <2>3, <2>4, <2>5, <2>6 DEF TimerOK, Cpu!Due
<1>3. CASE t.initial_count = 0
  <2>1. r = [t EXCEPT !.deadline = 0]
    BY <1>3
  <2>2. r \in CpuTimer
    <3>1. 0 \in Nat
      OBVIOUS
    <3> QED BY <2>1, <3>1, ZenonT(30) DEF CpuTimer
  <2>3. /\ r.last_start = t.last_start /\ r.deadline = 0 /\ r.divide_shift = t.divide_shift
        /\ r.initial_count = 0 /\ r.masked = t.masked /\ r.vector = t.vector
    BY <1>3, <2>1 DEF CpuTimer
  <2> QED BY <1>1, <2>2, <2>3 DEF TimerOK, Cpu!Due
<1> QED BY <1>2, <1>3

(* check_interrupt takes a timer that has come due to its next deadline.   *)
LEMMA CpuChecked ==
  ASSUME NEW t \in CpuTimer, s1 \in 0..Moments, NEW f \in Nat, TimerOK(t, s1, f),
         NEW r, r = Cpu!check_interrupt(t)
  PROVE  /\ r \in CpuTimer /\ r.divide_shift = t.divide_shift
         /\ TimerOK(r, s1, IF Cpu!Due(t) THEN f + 1 ELSE f)
<1>1. /\ t.initial_count \in Nat /\ t.last_start \in 0..Moments /\ t.deadline \in Nat
      /\ Cpu!interval(t) \in Nat /\ (t.initial_count # 0 => Cpu!interval(t) > 0)
  BY CpuInterval
<1>2. CASE ~Cpu!Due(t)
  BY <1>2 DEF Cpu!check_interrupt
<1>3. CASE Cpu!Due(t)
  <2>1. t.initial_count # 0 /\ t.deadline # 0 /\ s1 >= t.deadline
    BY <1>3 DEF Cpu!Due, TimerOK
  <2> DEFINE d == IF t.periodic THEN t.deadline + Cpu!interval(t) ELSE 0
  <2>2. r = [t EXCEPT !.deadline = d]
    BY <1>3 DEF Cpu!check_interrupt
  <2>3. d \in Nat
    BY <1>1
  <2> HIDE DEF d
  <2>4. r \in CpuTimer
    BY <2>2, <2>3, ZenonT(30) DEF CpuTimer
  <2>5. /\ r.last_start = t.last_start /\ r.deadline = d /\ r.divide_shift = t.divide_shift
        /\ r.initial_count = t.initial_count /\ r.vector = t.vector
    BY <2>2 DEF CpuTimer
  <2>6. r.masked = t.masked /\ r.periodic = t.periodic
    BY <2>2 DEF CpuTimer
  <2>7. Cpu!interval(r) = Cpu!interval(t)
    BY <2>5 DEF Cpu!interval
  <2>8. ~r.masked => r.vector \in Vectors
    BY <2>5, <2>6 DEF TimerOK
  <2>9. r.last_start <= s1 /\ (r.initial_count = 0 => r.deadline = 0)
    BY <2>1, <2>5 DEF TimerOK
  <2>10. ASSUME r.periodic PROVE r.deadline = r.last_start + ((f + 1) + 1) * Cpu!interval(r)
    <3> DEFINE i == Cpu!interval(t)
    <3>1. d = t.last_start + (f + 1) * i + i
      BY <2>1, <2>6, <2>10 DEF TimerOK, d
    <3>2. i \in Nat /\ t.last_start \in Nat
      BY <1>1
    <3> HIDE DEF i
    <3>3. (f + 1) * i + i = ((f + 1) + 1) * i /\ (f + 1) * i \in Nat
      BY <3>2
    <3>4. d = t.last_start + ((f + 1) + 1) * i
      BY <3>1, <3>2, <3>3
    <3> QED BY <2>5, <2>7, <3>4 DEF i
  <2>11. ASSUME ~r.periodic PROVE r.deadline = 0 /\ s1 >= r.last_start + Cpu!interval(r)
    BY <2>1, <2>5, <2>6, <2>7, <2>11 DEF d, TimerOK
  <2>12. TimerOK(r, s1, f + 1)
    BY <2>8, <2>9, <2>10, <2>11 DEF TimerOK
  <2> QED BY <1>3, <2>4, <2>5, <2>12
<1> QED BY <1>2, <1>3

(* The count that is read and the deadline tell the same time, and a       *)
(* timer has fired as often as intervals have passed.                      *)
LEMMA CpuCounts ==
  ASSUME s2 \in CpuTimer, s1 \in 0..Moments, s8 \in Nat, TimerOK(s2, s1, s8)
  PROVE  Cpu!CounterAgrees /\ Cpu!TicksExact
<1> DEFINE c == s2.initial_count
           u == 2 ^ s2.divide_shift
           e == s1 - s2.last_start
           left == s2.deadline - s1
<1>1. /\ c \in Nat /\ u \in Nat \ {0} /\ s2.last_start \in Nat /\ s2.deadline \in Nat /\ s1 \in Nat
      /\ Cpu!interval(s2) \in Nat
  BY CpuInterval, PartsAssumption
<1>2. Cpu!interval(s2) = c * u
  BY DEF Cpu!interval
<1>3. e \in Nat /\ left \in Int
  BY <1>1 DEF TimerOK
<1>4. Cpu!TicksExact
  BY <1>1 DEF TimerOK, Cpu!TicksExact
<1>5. Cpu!current_counter(s2) =
        IF s2.periodic THEN c - ((e \div u) % c) ELSE IF e \div u < c THEN c - (e \div u) ELSE 0
  BY DEF Cpu!current_counter
<1>6. ASSUME s2.periodic, c # 0
      PROVE  Cpu!current_counter(s2) =
               IF left % (c * u) = 0 THEN c ELSE ((left % (c * u)) + u - 1) \div u
  <2>1. s2.deadline = s2.last_start + (s8 + 1) * (c * u)
    BY <1>2, <1>6 DEF TimerOK
  <2>2. c * u \in Nat /\ (s8 + 1) * (c * u) \in Nat
    BY <1>1
  <2>3. left = (s8 + 1) * (c * u) - e
    <3> DEFINE p == (s8 + 1) * (c * u)
    <3>1. p \in Nat /\ s2.deadline = s2.last_start + p
      BY <2>1, <2>2
    <3> HIDE DEF p
    <3>2. left = p - e
      BY <1>1, <3>1
    <3> QED BY <3>2 DEF p
  <2>4. c - ((e \div u) % c) = IF left % (c * u) = 0 THEN c ELSE ((left % (c * u)) + u - 1) \div u
    <3>1. c \in Nat \ {0}
      BY <1>1, <1>6
    <3>2. u \in Nat \ {0} /\ e \in Nat /\ left \in Int /\ s8 \in Nat
      BY <1>1, <1>3
    <3> HIDE DEF c, u, e, left
    <3>3. CASE left % (c * u) = 0
      <4>1. c - ((e \div u) % c) = c
        BY ONLY <2>3, <3>1, <3>2, <3>3, UnitsLeftRepeated, ZenonT(40)
      <4> QED BY <3>3, <4>1
    <3>4. CASE left % (c * u) # 0
      <4>1. c - ((e \div u) % c) = ((left % (c * u)) + u - 1) \div u
        BY ONLY <2>3, <3>1, <3>2, <3>4, UnitsLeftRepeated, ZenonT(40)
      <4> QED BY <3>4, <4>1
    <3> QED BY <3>3, <3>4
  <2> QED BY <1>5, <1>6, <2>4
<1>7. ASSUME ~s2.periodic
      PROVE  Cpu!current_counter(s2) = IF s2.deadline = 0 \/ left <= 0 THEN 0 ELSE (left + u - 1) \div u
  <2> DEFINE q == e \div u
  <2>1. q \in Nat /\ u * q <= e /\ e < u * q + u
    <3> HIDE DEF u, e
    <3> QED BY <1>1, <1>3, Quotient
  <2>2. q < c <=> e < c * u
    <3> HIDE DEF q, c, u, e
    <3>1. ASSUME q < c PROVE e < c * u
      <4>1. u * (q + 1) <= u * c
        BY <1>1, <2>1, <3>1
      <4>2. u * (q + 1) = u * q + u /\ u * c = c * u /\ u * q \in Int /\ u * c \in Int
        BY <1>1, <2>1
      <4> DEFINE a == u * q
                 b == u * c
      <4>3. a + u <= b /\ e < a + u /\ a \in Int /\ b \in Int
        BY <2>1, <4>1, <4>2
      <4> HIDE DEF a, b
      <4>4. e < b
        BY <1>1, <1>3, <4>3
      <4> QED BY <4>2, <4>4 DEF b
    <3>2. ASSUME ~(q < c) PROVE ~(e < c * u)
      <4>1. u * c <= u * q
        BY <1>1, <2>1, <3>2
      <4>2. u * c = c * u /\ u * q \in Int /\ u * c \in Int
        BY <1>1, <2>1
      <4> QED BY <1>3, <2>1, <4>1, <4>2
    <3> QED BY <3>1, <3>2
  <2>3. c * u \in Nat
    BY <1>1
  <2>4. (s2.deadline = 0 \/ left <= 0) <=> ~(e < c * u)
    <3>1. \/ c = 0 /\ s2.deadline = 0
          \/ s2.deadline = s2.last_start + c * u /\ c # 0
          \/ s2.deadline = 0 /\ s1 >= s2.last_start + c * u
      BY <1>1, <1>2, <1>7 DEF TimerOK
    <3>2. c = 0 => c * u = 0
      BY <1>1
    <3>3. c # 0 => c * u # 0
      BY <1>1
    <3> DEFINE p == c * u
    <3>4. /\ p \in Nat /\ (c = 0 => p = 0) /\ (c # 0 => p # 0)
          /\ \/ c = 0 /\ s2.deadline = 0
             \/ s2.deadline = s2.last_start + p /\ c # 0
             \/ s2.deadline = 0 /\ s1 >= s2.last_start + p
      BY <2>3, <3>1, <3>2, <3>3
    <3> HIDE DEF p
    <3>5. (s2.deadline = 0 \/ left <= 0) <=> ~(e < p)
      BY <1>1, <1>3, <3>4
    <3> QED BY <3>5 DEF p
  <2>5. CASE ~(e < c * u)
    BY <1>5, <1>7, <2>2, <2>4, <2>5
  <2>6. CASE e < c * u
    <3>1. ((c * u - e) + u - 1) \div u = c - q
      <4> HIDE DEF c, u, e
      <4> QED BY <1>1, <1>3, UnitsLeft, ZenonT(30)
    <3>2. s2.deadline = s2.last_start + c * u
      BY <1>1, <1>2, <1>7, <2>4, <2>6 DEF TimerOK
    <3>3. left = c * u - e
      <4> DEFINE p == c * u
      <4>1. p \in Nat /\ s2.deadline = s2.last_start + p
        BY <2>3, <3>2
      <4> HIDE DEF p
      <4>2. left = p - e
        BY <1>1, <4>1
      <4> QED BY <4>2 DEF p
    <3> QED BY <1>5, <1>7, <2>2, <2>4, <2>6, <3>1, <3>3
  <2> QED BY <2>5, <2>6
<1>8. Cpu!CounterAgrees
  BY <1>2, <1>6, <1>7 DEF Cpu!CounterAgrees, Cpu!CountPanics
<1> QED BY <1>4, <1>8

(* Entering the guest takes the first event, or asks for a window.         *)
LEMMA CpuEntered ==
  ASSUME CpuInv, NEW t \in CpuTimer, NEW w \in BOOLEAN, ~t.masked => t.vector \in Vectors,
         Cpu!vmexit_handler(t, w)
  PROVE  /\ s1' = s1 /\ s7' = s7 /\ s2' = Cpu!check_interrupt(t)
         /\ s3' \in Seq(Vectors) /\ Len(s3') <= Events
         /\ s4' \in BOOLEAN /\ s5' \in BOOLEAN /\ s6' \in Vectors \cup {0}
         /\ Cpu!NeverOverlooked'
<1> DEFINE queue == IF Cpu!Due(t) /\ ~t.masked THEN Append(s3, t.vector) ELSE s3
<1>1. /\ s1' = s1 /\ s7' = s7 /\ s2' = Cpu!check_interrupt(t)
      /\ Cpu!check_pending_events(queue, w) /\ Len(queue) <= Events
  BY ZenonT(30) DEF Cpu!vmexit_handler
<1>2. s3 \in Seq(Vectors) /\ s5 \in BOOLEAN
  BY ZenonT(30) DEF CpuInv, Cpu!TypeOK
<1>3. queue \in Seq(Vectors)
  BY <1>2
<1> HIDE DEF queue
<1>4. CASE queue # <<>> /\ (Head(queue) < 32 \/ s5)
  <2>1. s6' = Head(queue) /\ s3' = Tail(queue) /\ s4' = w /\ s5' = FALSE
    BY <1>1, <1>4, ZenonT(30) DEF Cpu!check_pending_events
  <2>2. Head(queue) \in Vectors /\ Tail(queue) \in Seq(Vectors) /\ Len(Tail(queue)) <= Events
    BY <1>1, <1>3, <1>4, PartsAssumption
  <2>3. s6' # 0
    BY <2>1, <2>2, PartsAssumption
  <2>4. s4' \in BOOLEAN /\ s5' \in BOOLEAN
    BY <2>1, ZenonT(30)
  <2>5. Cpu!NeverOverlooked'
    BY <2>3 DEF Cpu!NeverOverlooked, Cpu!None
  <2> QED BY <1>1, <2>1, <2>2, <2>4, <2>5, ZenonT(30)
<1>5. CASE ~(queue # <<>> /\ (Head(queue) < 32 \/ s5))
  <2>1. s6' = 0 /\ s3' = queue /\ s5' = s5 /\ s4' = (w \/ queue # <<>>)
    BY <1>1, <1>5, ZenonT(30) DEF Cpu!check_pending_events, Cpu!None
  <2>2. s4' \in BOOLEAN /\ s5' \in BOOLEAN
    BY <1>2, <2>1, ZenonT(30)
  <2>3. Cpu!NeverOverlooked'
    BY <2>1, ZenonT(30) DEF Cpu!NeverOverlooked
  <2>4. s6' \in Vectors \cup {0}
    BY <2>1
  <2> QED BY <1>1, <1>3, <2>1, <2>2, <2>3, <2>4, ZenonT(30)
<1> QED BY <1>4, <1>5

(* An exit keeps the invariant, whatever timer its handler leaves.         *)
LEMMA CpuExits ==
  ASSUME CpuInv, NEW t \in CpuTimer, NEW f \in Nat, TimerOK(t, s1, f), NEW w \in BOOLEAN,
         Cpu!vmexit_handler(t, w),
         s8' = IF Cpu!Due(t) THEN f + 1 ELSE f,
         s9' \in 0..15, t.divide_shift = ShiftOf(s9')
  PROVE  CpuInv'
<1>1. /\ s1 \in 0..Moments /\ s7 \in BOOLEAN
  BY ZenonT(30) DEF CpuInv, Cpu!TypeOK
<1>2. ~t.masked => t.vector \in Vectors
  BY DEF TimerOK
<1>3. /\ s1' = s1 /\ s7' = s7 /\ s2' = Cpu!check_interrupt(t)
      /\ s3' \in Seq(Vectors) /\ Len(s3') <= Events
      /\ s4' \in BOOLEAN /\ s5' \in BOOLEAN /\ s6' \in Vectors \cup {0}
      /\ Cpu!NeverOverlooked'
  BY <1>2, CpuEntered, ZenonT(30)
<1>4. /\ s2' \in CpuTimer /\ s2'.divide_shift = t.divide_shift
      /\ TimerOK(s2', s1, IF Cpu!Due(t) THEN f + 1 ELSE f)
  BY <1>1, <1>3, CpuChecked, ZenonT(30)
<1>5. TimerOK(s2', s1', s8')
  BY <1>3, <1>4, ZenonT(30)
<1>6. s8' \in Nat
  OBVIOUS
<1>7. Cpu!TypeOK'
  BY <1>1, <1>3, <1>4, <1>6, ZenonT(30) DEF Cpu!TypeOK, CpuTimer, Cpu!None
<1>8. TimerOK(s2, s1, s8)'
  BY <1>5 DEF TimerOK, Cpu!interval
<1> QED BY <1>3, <1>4, <1>7, <1>8 DEF CpuInv, ShiftOf

(* A write to a register of the timer starts it again: it has not fired.   *)
LEMMA CpuWrites ==
  ASSUME CpuInv, NEW t \in CpuTimer, t.last_start <= s1, ~t.masked => t.vector \in Vectors,
         Cpu!Written(Cpu!start_timer(t)), s9' \in 0..15, t.divide_shift = ShiftOf(s9')
  PROVE  CpuInv'
<1> DEFINE r == Cpu!start_timer(t)
<1>1. s1 \in 0..Moments /\ s4 \in BOOLEAN
  BY ZenonT(30) DEF CpuInv, Cpu!TypeOK
<1>2. r \in CpuTimer /\ TimerOK(r, s1, 0) /\ ~Cpu!Due(r) /\ r.divide_shift = t.divide_shift
  BY <1>1, CpuStarted, ZenonT(30)
<1>3. Cpu!vmexit_handler(r, s4) /\ s8' = IF Cpu!Due(r) THEN 1 ELSE 0
  BY ZenonT(30) DEF Cpu!Written
<1> HIDE DEF r
<1>4. s8' = (IF Cpu!Due(r) THEN 0 + 1 ELSE 0) /\ 0 \in Nat
  BY <1>2, <1>3
<1> QED BY <1>1, <1>2, <1>3, <1>4, CpuExits, ZenonT(30)

(* One step per exit, write, tick and change of the flag.                  *)
LEMMA CpuStep ==
  ASSUME CpuInv, Cpu!Next
  PROVE  CpuInv'
<1>1. s1 \in 0..Moments /\ s2 \in CpuTimer /\ s4 \in BOOLEAN /\ s5 \in BOOLEAN /\ s8 \in Nat
  BY ZenonT(30) DEF CpuInv, Cpu!TypeOK, CpuTimer
<1>2. /\ TimerOK(s2, s1, s8) /\ s9 \in 0..15 /\ s2.divide_shift = ShiftOf(s9)
      /\ s2.last_start <= s1 /\ (~s2.masked => s2.vector \in Vectors)
  BY DEF CpuInv, TimerOK
<1>3. ASSUME Cpu!exit \/ Cpu!exit_window PROVE CpuInv'
  <2>1. PICK w \in BOOLEAN : Cpu!vmexit_handler(s2, w)
    BY <1>1, <1>3, ZenonT(30) DEF Cpu!exit, Cpu!exit_window
  <2>2. s8' = (IF Cpu!Due(s2) THEN s8 + 1 ELSE s8) /\ s9' = s9
    BY <1>3, ZenonT(30) DEF Cpu!exit, Cpu!exit_window, Cpu!Fired
  <2>3. s9' \in 0..15 /\ s2.divide_shift = ShiftOf(s9')
    BY <1>2, <2>2, ZenonT(30)
  <2> QED BY <1>1, <1>2, <2>1, <2>2, <2>3, CpuExits, ZenonT(30)
<1>4. CASE Cpu!write_lvt_timer
  <2>1. PICK m \in BOOLEAN, p \in BOOLEAN, v \in Vectors :
          Cpu!Written(Cpu!set_lvt_timer(s2, m, p, v)) /\ s9' = s9
    BY <1>4, ZenonT(30) DEF Cpu!write_lvt_timer
  <2> DEFINE t == [s2 EXCEPT !.masked = m, !.periodic = p, !.vector = v]
  <2>2. t \in CpuTimer
    <3>1. v \in Vectors \cup {0}
      OBVIOUS
    <3> QED BY <1>1, <3>1, ZenonT(30) DEF CpuTimer
  <2>3. t.last_start = s2.last_start /\ t.divide_shift = s2.divide_shift /\ t.vector = v
    BY <1>1 DEF CpuTimer
  <2>4. Cpu!Written(Cpu!start_timer(t))
    BY <2>1 DEF Cpu!set_lvt_timer
  <2> HIDE DEF t
  <2>5. t.last_start <= s1 /\ (~t.masked => t.vector \in Vectors) /\ s9' \in 0..15 /\ t.divide_shift = ShiftOf(s9')
    BY <1>2, <2>1, <2>3, ZenonT(30)
  <2> QED BY <2>2, <2>4, <2>5, CpuWrites, ZenonT(30)
<1>5. CASE Cpu!write_initial_count
  <2>1. PICK n \in InitialCounts : Cpu!Written(Cpu!set_initial_count(s2, n)) /\ s9' = s9
    BY <1>5, ZenonT(30) DEF Cpu!write_initial_count
  <2> DEFINE t == [s2 EXCEPT !.initial_count = n]
  <2>2. t \in CpuTimer
    <3>1. n \in InitialCounts \cup {0}
      OBVIOUS
    <3> QED BY <1>1, <3>1, ZenonT(30) DEF CpuTimer
  <2>3. /\ t.last_start = s2.last_start /\ t.divide_shift = s2.divide_shift /\ t.vector = s2.vector
        /\ t.masked = s2.masked
    BY <1>1 DEF CpuTimer
  <2>4. Cpu!Written(Cpu!start_timer(t))
    BY <2>1 DEF Cpu!set_initial_count
  <2> HIDE DEF t
  <2>5. t.last_start <= s1 /\ (~t.masked => t.vector \in Vectors) /\ s9' \in 0..15 /\ t.divide_shift = ShiftOf(s9')
    BY <1>2, <2>1, <2>3, ZenonT(30)
  <2> QED BY <2>2, <2>4, <2>5, CpuWrites, ZenonT(30)
<1>6. CASE Cpu!write_divide
  <2>1. PICK dcr \in DivideValues : Cpu!Written(Cpu!set_divide(s2, dcr)) /\ s9' = dcr
    BY <1>6, ZenonT(30) DEF Cpu!write_divide
  <2> DEFINE t == [s2 EXCEPT !.divide_shift = ShiftOf(dcr)]
  <2>2. ShiftOf(dcr) \in 0..7 /\ dcr \in 0..15
    BY PartsAssumption DEF ShiftOf
  <2>3. t \in CpuTimer
    BY <1>1, <2>2, ZenonT(30) DEF CpuTimer
  <2>4. /\ t.last_start = s2.last_start /\ t.divide_shift = ShiftOf(dcr) /\ t.vector = s2.vector
        /\ t.masked = s2.masked
    BY <1>1 DEF CpuTimer
  <2>5. Cpu!Written(Cpu!start_timer(t))
    BY <2>1, ZenonT(30) DEF Cpu!set_divide, ShiftOf
  <2> HIDE DEF t
  <2>6. t.last_start <= s1 /\ (~t.masked => t.vector \in Vectors) /\ s9' \in 0..15 /\ t.divide_shift = ShiftOf(s9')
    BY <1>2, <2>1, <2>2, <2>4, ZenonT(30)
  <2> QED BY <2>3, <2>5, <2>6, CpuWrites, ZenonT(30)
<1>7. CASE Cpu!exit_panics
  <2>1. s7' \in BOOLEAN
    BY <1>7, ZenonT(30) DEF Cpu!exit_panics
  <2>2. UNCHANGED <<s1, s2, s3, s4, s5, s6, s8, s9>>
    BY <1>7 DEF Cpu!exit_panics
  <2> QED BY <2>1, <2>2 DEF CpuInv, Cpu!TypeOK, Cpu!NeverOverlooked, TimerOK, Cpu!interval
<1>8. CASE Cpu!tick
  <2>1. s1' = s1 + 1 /\ s1' \in 0..Moments /\ UNCHANGED <<s2, s3, s4, s5, s6, s7, s8, s9>>
    BY <1>1, <1>8, PartsAssumption DEF Cpu!tick
  <2>2. Cpu!TypeOK' /\ Cpu!NeverOverlooked'
    BY <2>1 DEF CpuInv, Cpu!TypeOK, Cpu!NeverOverlooked
  <2>3. TimerOK(s2, s1 + 1, s8)
    <3>1. s1 \in Nat /\ s2.last_start \in Nat /\ Cpu!interval(s2) \in Nat /\ TimerOK(s2, s1, s8)
      BY <1>1, <1>2, CpuInterval, PartsAssumption
    <3>2. /\ s2.last_start <= s1 => s2.last_start <= s1 + 1
          /\ s1 >= s2.last_start + Cpu!interval(s2) => s1 + 1 >= s2.last_start + Cpu!interval(s2)
      BY ONLY <3>1, SMTT(30)
    <3> QED BY ONLY <3>1, <3>2, ZenonT(30) DEF TimerOK
  <2>4. TimerOK(s2, s1, s8)'
    BY <2>1, <2>3 DEF TimerOK, Cpu!interval
  <2> QED BY <1>2, <2>1, <2>2, <2>4 DEF CpuInv
<1>9. CASE Cpu!guest_flag
  <2>1. s5' \in BOOLEAN
    BY <1>1, <1>9, ZenonT(30) DEF Cpu!guest_flag
  <2>2. UNCHANGED <<s1, s2, s3, s4, s6, s7, s8, s9>>
    BY <1>9 DEF Cpu!guest_flag
  <2> QED BY <2>1, <2>2 DEF CpuInv, Cpu!TypeOK, Cpu!NeverOverlooked, TimerOK, Cpu!interval
<1> QED BY <1>3, <1>4, <1>5, <1>6, <1>7, <1>8, <1>9 DEF Cpu!Next

(* What the invariant says of the registers.                               *)
LEMMA CpuMeans ==
  ASSUME CpuInv
  PROVE  Cpu!TypeOK /\ Cpu!NeverOverlooked /\ Cpu!CounterAgrees /\ Cpu!TicksExact /\ Cpu!DivideReads
<1>1. s1 \in 0..Moments /\ s2 \in CpuTimer /\ s8 \in Nat /\ TimerOK(s2, s1, s8)
  BY ZenonT(30) DEF CpuInv, Cpu!TypeOK, CpuTimer
<1>2. Cpu!CounterAgrees /\ Cpu!TicksExact
  BY <1>1, CpuCounts, ZenonT(30)
<1>3. Cpu!DivideReads
  BY DEF CpuInv, ShiftOf, Cpu!DivideReads, Cpu!divide
<1> QED BY <1>2, <1>3 DEF CpuInv

(* An event waits only while a window is open or behind one just injected; *)
(* the count a guest reads and the deadline the host checks agree; no      *)
(* period is lost or added; the divide register reads as it was written.   *)
THEOREM VCpuIsSound == PartsSpec => []VCpuSound
<1> DEFINE Inv == kind = "vcpu" => CpuInv
<1>1. PartsInit => Inv
  <2> SUFFICES ASSUME Cpu!Init PROVE CpuInv
    BY DEF PartsInit
  <2>1. s4 \in BOOLEAN /\ s5 \in BOOLEAN /\ s7 \in BOOLEAN
    BY ZenonT(30) DEF Cpu!Init
  <2>2. s1 = 0 /\ s3 \in Seq(Vectors) /\ s3 = <<>> /\ Len(s3) = 0 /\ s6 = 0 /\ s8 = 0 /\ s9 = 11
    BY DEF Cpu!Init, Cpu!None
  <2>3. 0 \in 0..Moments /\ 0 \in 0..7 /\ 0 \in Nat /\ 0 \in Vectors \cup {0} /\ 0 \in InitialCounts \cup {0}
    BY PartsAssumption
  <2>4. s2 \in CpuTimer
    BY <2>3, ZenonT(30) DEF Cpu!Init, CpuTimer
  <2>5. s2.masked /\ s2.divide_shift = 0 /\ s2.initial_count = 0 /\ s2.last_start = 0 /\ s2.deadline = 0
    BY DEF Cpu!Init
  <2>6. TimerOK(s2, s1, s8)
    BY <2>2, <2>5 DEF TimerOK
  <2>7. s9 \in 0..15 /\ s2.divide_shift = ShiftOf(s9)
    BY <2>2, <2>5 DEF ShiftOf
  <2>8. Cpu!TypeOK
    BY <2>1, <2>2, <2>3, <2>4, PartsAssumption DEF Cpu!TypeOK, CpuTimer, Cpu!None
  <2>9. Cpu!NeverOverlooked
    BY <2>2 DEF Cpu!NeverOverlooked
  <2> QED BY <2>6, <2>7, <2>8, <2>9 DEF CpuInv
<1>2. Inv /\ [PartsNext /\ UNCHANGED kind]_<<kind, slots>> => Inv'
  <2> SUFFICES ASSUME Inv, [PartsNext /\ UNCHANGED kind]_<<kind, slots>>, kind' = "vcpu" PROVE CpuInv'
    OBVIOUS
  <2>1. kind = "vcpu" /\ CpuInv
    OBVIOUS
  <2>2. CASE UNCHANGED slots
    BY <2>1, <2>2 DEF slots, CpuInv, Cpu!TypeOK, Cpu!NeverOverlooked, TimerOK, Cpu!interval
  <2>3. CASE PartsNext
    <3>1. Cpu!Next
      BY <2>1, <2>3 DEF PartsNext
    <3> QED BY <2>1, <3>1, CpuStep
  <2> QED BY <2>2, <2>3
<1>3. Inv => VCpuSound
  BY CpuMeans DEF VCpuSound
<1> HIDE DEF Inv
<1> QED BY <1>1, <1>2, <1>3, PTL DEF PartsSpec
=============================================================================
