----------------------------- MODULE TasksProofs -----------------------------
(***************************************************************************)
(* Proofs about the scheduler and the process life cycle, for any number   *)
(* of CPUs and processes.                                                  *)
(***************************************************************************)
EXTENDS Tasks, NaturalLemmas, SequenceTheorems, FiniteSetTheorems, TLAPS

-----------------------------------------------------------------------------
(* Facts about the sequences that model VecDeque.                          *)

(* pop_front followed by nothing: the head leaves the queue.               *)
LEMMA TailRange ==
  ASSUME NEW S, NEW s \in Seq(S), s # <<>>
  PROVE  /\ Tail(s) \in Seq(S)
         /\ Head(s) \in Range(s)
         /\ Range(s) = Range(Tail(s)) \cup {Head(s)}
         /\ IsInjective(s) => IsInjective(Tail(s)) /\ Head(s) \notin Range(Tail(s))
<1>1. /\ Tail(s) \in Seq(S) /\ Len(Tail(s)) = Len(s) - 1 /\ Len(s) \in Nat \ {0}
      /\ \A i \in 1 .. Len(Tail(s)) : Tail(s)[i] = s[i+1]
      /\ Head(s) = s[1]
  BY HeadTailProperties, EmptySeq
<1>2. DOMAIN s = 1 .. Len(s) /\ DOMAIN Tail(s) = 1 .. (Len(s) - 1)
  BY <1>1, LenProperties
<1>3. \A i \in 1 .. Len(s) : i = 1 \/ (i - 1 \in 1 .. (Len(s) - 1) /\ s[i] = Tail(s)[i-1])
  BY <1>1
<1>4. Range(s) = Range(Tail(s)) \cup {Head(s)}
  <2>1. Range(s) \subseteq Range(Tail(s)) \cup {Head(s)}
    <3> SUFFICES ASSUME NEW i \in 1 .. Len(s)
                 PROVE  s[i] \in Range(Tail(s)) \cup {Head(s)}
      BY <1>2 DEF Range
    <3> QED BY <1>1, <1>2, <1>3 DEF Range
  <2>2. Range(Tail(s)) \cup {Head(s)} \subseteq Range(s)
    BY <1>1, <1>2 DEF Range
  <2> QED BY <2>1, <2>2
<1>5. IsInjective(s) => IsInjective(Tail(s)) /\ Head(s) \notin Range(Tail(s))
  BY <1>1, <1>2 DEF IsInjective, Range
<1> QED BY <1>1, <1>4, <1>5

(* push_back.                                                              *)
LEMMA AppendRange ==
  ASSUME NEW S, NEW s \in Seq(S), NEW e \in S
  PROVE  /\ Append(s, e) \in Seq(S)
         /\ Append(s, e) # <<>>
         /\ Range(Append(s, e)) = Range(s) \cup {e}
         /\ IsInjective(s) /\ e \notin Range(s) => IsInjective(Append(s, e))
<1>1. /\ Append(s, e) \in Seq(S) /\ Append(s, e) # <<>>
      /\ Len(Append(s, e)) = Len(s) + 1 /\ Len(s) \in Nat
      /\ \A i \in 1 .. Len(s) : Append(s, e)[i] = s[i]
      /\ Append(s, e)[Len(s) + 1] = e
  BY AppendProperties, LenProperties
<1>2. DOMAIN s = 1 .. Len(s) /\ DOMAIN Append(s, e) = 1 .. (Len(s) + 1)
  BY <1>1, LenProperties
<1>3. Range(Append(s, e)) = Range(s) \cup {e}
  <2>1. Range(Append(s, e)) \subseteq Range(s) \cup {e}
    <3> SUFFICES ASSUME NEW i \in 1 .. (Len(s) + 1)
                 PROVE  Append(s, e)[i] \in Range(s) \cup {e}
      BY <1>2 DEF Range
    <3>1. CASE i \in 1 .. Len(s) BY <1>1, <1>2, <3>1 DEF Range
    <3>2. CASE i = Len(s) + 1 BY <1>1, <3>2
    <3> QED BY <1>1, <3>1, <3>2
  <2>2. Range(s) \cup {e} \subseteq Range(Append(s, e))
    BY <1>1, <1>2 DEF Range
  <2> QED BY <2>1, <2>2
<1>4. IsInjective(s) /\ e \notin Range(s) => IsInjective(Append(s, e))
  BY <1>1, <1>2 DEF IsInjective, Range
<1> QED BY <1>1, <1>3, <1>4

(* retain of all entries but the one at index k.                           *)
LEMMA RemoveAtRange ==
  ASSUME NEW S, NEW s \in Seq(S), NEW k \in 1 .. Len(s)
  PROVE  /\ RemoveAt(s, k) \in Seq(S)
         /\ Range(s) = Range(RemoveAt(s, k)) \cup {s[k]}
         /\ IsInjective(s) => /\ IsInjective(RemoveAt(s, k))
                              /\ s[k] \notin Range(RemoveAt(s, k))
<1> DEFINE a == SubSeq(s, 1, k - 1)
           b == SubSeq(s, k + 1, Len(s))
           r == RemoveAt(s, k)
<1>0. Len(s) \in Nat /\ DOMAIN s = 1 .. Len(s) /\ \A i \in 1 .. Len(s) : s[i] \in S
  BY LenProperties, ElementOfSeq
<1>1. /\ a \in Seq(S) /\ Len(a) = k - 1
      /\ \A i \in 1 .. (k - 1) : a[i] = s[i]
  <2>1. \A i \in 1 .. (k - 1) : s[i] \in S BY <1>0
  <2>2. k - 1 \in Int /\ k \in Int /\ k >= 1 BY <1>0
  <2>3. /\ a \in Seq(S) /\ Len(a) = IF 1 <= k - 1 THEN (k - 1) - 1 + 1 ELSE 0
        /\ \A i \in 1 .. ((k - 1) - 1 + 1) : a[i] = s[1 + i - 1]
    BY <2>1, <2>2, SubSeqProperties
  <2> QED BY <2>2, <2>3
<1>2. /\ b \in Seq(S) /\ Len(b) = Len(s) - k
      /\ \A i \in 1 .. (Len(s) - k) : b[i] = s[k + i]
  <2>1. \A i \in (k + 1) .. Len(s) : s[i] \in S BY <1>0
  <2>2. k + 1 \in Int /\ k \in Int /\ k >= 1 /\ k <= Len(s) /\ Len(s) \in Int BY <1>0
  <2>3. /\ b \in Seq(S) /\ Len(b) = IF k + 1 <= Len(s) THEN Len(s) - (k + 1) + 1 ELSE 0
        /\ \A i \in 1 .. (Len(s) - (k + 1) + 1) : b[i] = s[(k + 1) + i - 1]
    BY <2>1, <2>2, SubSeqProperties
  <2> QED BY <2>2, <2>3
<1>3. r = a \o b
  BY DEF RemoveAt
<1>4. /\ r \in Seq(S) /\ Len(r) = Len(s) - 1
      /\ \A i \in 1 .. (Len(s) - 1) : r[i] = IF i < k THEN s[i] ELSE s[i + 1]
  <2>1. /\ a \o b \in Seq(S) /\ Len(a \o b) = Len(a) + Len(b)
        /\ \A i \in 1 .. (Len(a) + Len(b)) :
             (a \o b)[i] = IF i <= Len(a) THEN a[i] ELSE b[i - Len(a)]
    BY <1>1, <1>2, ConcatProperties
  <2>2. Len(a) + Len(b) = Len(s) - 1
    <3>1. k \in Int /\ Len(s) \in Int BY <1>0
    <3>2. (k - 1) + (Len(s) - k) = Len(s) - 1 BY <3>1
    <3> QED BY <1>1, <1>2, <3>2
  <2>3. ASSUME NEW i \in 1 .. (Len(s) - 1)
        PROVE  r[i] = IF i < k THEN s[i] ELSE s[i + 1]
    <3> HIDE DEF a, b
    <3>1. r[i] = IF i <= k - 1 THEN a[i] ELSE b[i - (k - 1)]
      BY <1>1, <1>3, <2>1, <2>2
    <3>2. CASE i < k BY <1>0, <1>1, <3>1, <3>2
    <3>3. CASE ~ (i < k)
      <4>1. i - (k - 1) \in 1 .. (Len(s) - k) /\ k + (i - (k - 1)) = i + 1 BY <1>0, <3>3
      <4>2. b[i - (k - 1)] = s[k + (i - (k - 1))] BY <4>1, <1>2
      <4> QED BY <1>0, <3>1, <3>3, <4>1, <4>2
    <3> QED BY <3>2, <3>3
  <2> QED BY <1>3, <2>1, <2>2, <2>3
<1>5. DOMAIN r = 1 .. (Len(s) - 1)
  BY <1>4, LenProperties
<1> HIDE DEF a, b, r
<1>6. Range(s) = Range(r) \cup {s[k]}
  <2>1. ASSUME NEW i \in 1 .. Len(s) PROVE s[i] \in Range(r) \cup {s[k]}
    <3>1. CASE i < k BY <1>0, <1>4, <1>5, <3>1 DEF Range
    <3>2. CASE i = k BY <3>2
    <3>3. CASE i > k
      <4>1. i - 1 \in 1 .. (Len(s) - 1) /\ r[i - 1] = s[(i - 1) + 1] /\ (i - 1) + 1 = i
        BY <1>0, <1>4, <3>3
      <4> QED BY <1>5, <4>1 DEF Range
    <3> QED BY <1>0, <3>1, <3>2, <3>3
  <2>2. \A i \in 1 .. (Len(s) - 1) : r[i] \in Range(s)
    BY <1>0, <1>4 DEF Range
  <2> QED BY <1>0, <1>5, <2>1, <2>2 DEF Range
<1>7. ASSUME IsInjective(s) PROVE IsInjective(r) /\ s[k] \notin Range(r)
  <2>1. \A i \in 1 .. (Len(s) - 1) :
          \E x \in 1 .. Len(s) : x # k /\ r[i] = s[x] /\ x = IF i < k THEN i ELSE i + 1
    BY <1>0, <1>4
  <2>2. \A x, y \in 1 .. Len(s) : s[x] = s[y] => x = y
    BY <1>0, <1>7 DEF IsInjective
  <2>3. \A i \in 1 .. (Len(s) - 1) : r[i] # s[k]
    BY <2>1, <2>2
  <2>4. \A i, j \in 1 .. (Len(s) - 1) : r[i] = r[j] => i = j
    BY <1>0, <2>1, <2>2
  <2> QED BY <1>5, <2>3, <2>4 DEF IsInjective, Range
<1> QED BY <1>4, <1>6, <1>7 DEF r

-----------------------------------------------------------------------------
(* The parts of the inductive invariant that no run checks by themselves.  *)

ExecveStep == SyscallStep \ {"exit"}

(* A system call runs on behalf of a user thread, and exactly the ones     *)
(* inside execve hold a child.                                             *)
SyscallState ==
  \A c \in Cpu :
    /\ pc[c] \in SyscallStep => current[c] \in Pid
    /\ pc[c] \in ExecveStep => child[c] \in created
    /\ pc[c] \notin ExecveStep => child[c] = NoPid

(* SCHEDULER knows only threads that exist or existed.                     *)
Placed == Range(current) \cup Range(ready) \subseteq KernelThread \cup created

(* A process that has not ended is in PROCESSES or will be pushed by the   *)
(* execve that created it.                                                 *)
Accounted ==
  /\ ended \subseteq created
  /\ \A p \in created \ ended :
       p \in processes \/ \E c \in Cpu : pc[c] = "push" /\ child[c] = p

Inv == TypeOK /\ SyscallState /\ Placed /\ Exclusive /\ Accounted

(* Scheduler::remove takes one thread out and keeps all others.            *)
LEMMA RemoveThread ==
  ASSUME TypeOK, IsInjective(ready), NEW t
  PROVE  /\ remove(t) \in Seq(Thread)
         /\ Range(remove(t)) = Range(ready) \ {t}
         /\ IsInjective(remove(t))
<1>0. ready \in Seq(Thread) /\ DOMAIN ready = 1 .. Len(ready)
  BY LenProperties DEF TypeOK
<1>1. CASE ~ Queued(t)
  BY <1>0, <1>1 DEF remove, Queued
<1>2. CASE Queued(t)
  <2> DEFINE k == CHOOSE i \in DOMAIN ready : ready[i] = t
  <2>1. k \in DOMAIN ready /\ ready[k] = t
    BY <1>2 DEF Queued, Range
  <2>2. remove(t) = RemoveAt(ready, k)
    BY <1>2 DEF remove
  <2> HIDE DEF k
  <2>3. k \in 1 .. Len(ready)
    BY <1>0, <2>1
  <2>4. /\ RemoveAt(ready, k) \in Seq(Thread)
        /\ Range(ready) = Range(RemoveAt(ready, k)) \cup {t}
        /\ IsInjective(RemoveAt(ready, k))
        /\ t \notin Range(RemoveAt(ready, k))
    BY <1>0, <2>1, <2>3, RemoveAtRange
  <2> QED BY <2>2, <2>4
<1> QED BY <1>1, <1>2

(* Scheduler::find returns a ready thread of the process it is asked for.  *)
LEMMA FindThread ==
  ASSUME TypeOK, NEW pid, find(pid) # 0
  PROVE  ready[find(pid)] \in ThreadsOf(pid) \cap Range(ready)
<1> DEFINE match == {i \in DOMAIN ready : ready[i] \in ThreadsOf(pid)}
<1>1. DOMAIN ready = 1 .. Len(ready) /\ Len(ready) \in Nat
  BY LenProperties DEF TypeOK
<1>2. match \in SUBSET Nat
  BY <1>1
<1>3. match # {} /\ find(pid) = CHOOSE i \in match : \A j \in match : i <= j
  BY DEF find
<1>4. \E i \in match : \A j \in match : i <= j
  <2> HIDE DEF match
  <2> QED BY <1>2, <1>3, LeastNatural
<1>5. find(pid) \in match
  <2> HIDE DEF match
  <2> QED BY <1>3, <1>4
<1> QED BY <1>5 DEF Range

(* What one timer interrupt does to the two collections of SCHEDULER.      *)
LEMMA Rotation ==
  ASSUME TypeOK, Exclusive, NEW c \in Cpu, timer_interrupt(c)
  PROVE  /\ current' \in [Cpu -> Thread]
         /\ ready' \in Seq(Thread)
         /\ Exclusive'
         /\ \/ ready = <<>> /\ UNCHANGED <<current, ready>>
            \/ \E h \in Range(ready) :
                 /\ current'[c] = h
                 /\ \A d \in Cpu \ {c} : current'[d] = current[d]
                 /\ Range(current') = (Range(current) \ {current[c]}) \cup {h}
                 /\ Range(ready') = (Range(ready) \ {h}) \cup
                                    {t \in {current[c]} : Alive(t)}
<1>0. current \in [Cpu -> Thread] /\ ready \in Seq(Thread)
  BY DEF TypeOK
<1>1. CASE ready = <<>>
  <2>1. current' = current /\ ready' = ready
    BY <1>0, <1>1 DEF timer_interrupt, next_thread, ready_after
  <2> QED BY <1>0, <1>1, <2>1 DEF Exclusive
<1>2. CASE ready # <<>>
  <2> DEFINE h == Head(ready)
  <2>1. /\ current' = [current EXCEPT ![c] = h]
        /\ ready' = IF Alive(current[c]) THEN Append(Tail(ready), current[c])
                    ELSE Tail(ready)
    BY <1>2 DEF timer_interrupt, next_thread, ready_after
  <2>2. /\ Tail(ready) \in Seq(Thread) /\ IsInjective(Tail(ready))
        /\ h \in Range(ready) /\ Range(Tail(ready)) = Range(ready) \ {h}
    BY <1>0, <1>2, TailRange DEF Exclusive
  <2>3. h \in Thread /\ h \notin Range(current)
    BY <1>0, <1>2, <2>2, HeadTailProperties DEF Exclusive
  <2> HIDE DEF h
  <2>4. /\ current' \in [Cpu -> Thread] /\ IsInjective(current')
        /\ Range(current') = (Range(current) \ {current[c]}) \cup {h}
    <3>1. current' = [current EXCEPT ![c] = h] /\ IsInjective(current)
      BY <2>1 DEF Exclusive
    <3> QED BY <1>0, <2>3, <3>1 DEF IsInjective, Range
  <2>5. current[c] \in Thread /\ current[c] \in Range(current)
    BY <1>0 DEF Range
  <2>6. current[c] \notin Range(ready)
    BY <2>5 DEF Exclusive
  <2>7. /\ ready' \in Seq(Thread) /\ IsInjective(ready')
        /\ Range(ready') = (Range(ready) \ {h}) \cup {t \in {current[c]} : Alive(t)}
    <3>1. CASE Alive(current[c])
      <4>1. current[c] \notin Range(Tail(ready))
        BY <2>2, <2>6
      <4> DEFINE q == Tail(ready)
                 last == current[c]
      <4>2. /\ q \in Seq(Thread) /\ IsInjective(q)
            /\ last \in Thread /\ last \notin Range(q)
        BY <2>2, <2>5, <4>1
      <4>3. {t \in {current[c]} : Alive(t)} = {current[c]}
        BY <3>1
      <4>4. ready' = Append(q, last)
        BY <2>1, <3>1
      <4> HIDE DEF q, last
      <4>5. /\ ready' \in Seq(Thread) /\ IsInjective(ready')
            /\ Range(ready') = Range(q) \cup {last}
        BY <4>2, <4>4, AppendRange
      <4> QED BY <2>2, <4>3, <4>5 DEF q, last
    <3>2. CASE ~ Alive(current[c])
      BY <2>1, <2>2, <3>2
    <3> QED BY <3>1, <3>2
  <2>8. Range(current') \cap Range(ready') = {}
    BY <2>4, <2>5, <2>6, <2>7, <2>2 DEF Exclusive
  <2>9. current'[c] = h /\ \A d \in Cpu \ {c} : current'[d] = current[d]
    BY <1>0, <2>1
  <2> QED BY <2>2, <2>4, <2>7, <2>8, <2>9 DEF Exclusive
<1> QED BY <1>1, <1>2

-----------------------------------------------------------------------------
(* The invariant holds at boot.                                            *)
LEMMA InvInit == Init => Inv
<1> SUFFICES ASSUME Init PROVE Inv
  OBVIOUS
<1> USE ConstantsAssumption
<1>1. boot_queue \in Seq(Thread)
  BY DEF boot_queue, Thread, KernelThread
<1>2. TypeOK
  BY <1>1 DEF Init, TypeOK, Thread, KernelThread
<1>3. SyscallState
  BY DEF Init, SyscallState, SyscallStep, ExecveStep
<1>4. Range(current) = Cpu /\ Range(ready) = {Keyboard, InitPid}
  <2>1. Range(current) = Cpu
    BY DEF Init, Range
  <2>2. DOMAIN ready = 1 .. 2 /\ ready[1] = Keyboard /\ ready[2] = InitPid
    BY DEF Init, boot_queue
  <2>3. Range(ready) = {ready[1], ready[2]}
    BY <2>2 DEF Range
  <2> QED BY <2>1, <2>2, <2>3
<1>5. Placed
  BY <1>4 DEF Placed, Init, KernelThread
<1>6. Exclusive
  <2>1. IsInjective(current)
    BY DEF Init, IsInjective
  <2>2. Keyboard # InitPid
    BY DEF KernelThread
  <2>3. IsInjective(ready)
    BY <2>2 DEF Init, boot_queue, IsInjective
  <2>4. Range(current) \cap Range(ready) = {}
    BY <1>4 DEF KernelThread
  <2> QED BY <2>1, <2>3, <2>4 DEF Exclusive
<1>7. Accounted
  BY DEF Init, Accounted
<1> QED BY <1>2, <1>3, <1>5, <1>6, <1>7 DEF Inv

(* The timer interrupt keeps the invariant.                                *)
LEMMA InvTimer ==
  ASSUME Inv, NEW c \in Cpu, timer_interrupt(c)
  PROVE  Inv'
<1> USE DEF Inv
<1>1. /\ current' \in [Cpu -> Thread] /\ ready' \in Seq(Thread) /\ Exclusive'
      /\ \A d \in Cpu : d # c => current'[d] = current[d]
      /\ Range(current') \cup Range(ready') \subseteq Range(current) \cup Range(ready)
  <2>0. current \in [Cpu -> Thread] /\ current[c] \in Range(current)
    BY DEF TypeOK, Range
  <2>1. /\ current' \in [Cpu -> Thread] /\ ready' \in Seq(Thread) /\ Exclusive'
    BY Rotation
  <2>2. CASE ready = <<>> /\ UNCHANGED <<current, ready>>
    BY <2>1, <2>2
  <2>3. ASSUME NEW h \in Range(ready),
               \A d \in Cpu \ {c} : current'[d] = current[d],
               Range(current') = (Range(current) \ {current[c]}) \cup {h},
               Range(ready') = (Range(ready) \ {h}) \cup {t \in {current[c]} : Alive(t)}
        PROVE  /\ \A d \in Cpu : d # c => current'[d] = current[d]
               /\ Range(current') \cup Range(ready') \subseteq Range(current) \cup Range(ready)
    BY <2>0, <2>3
  <2> QED BY <2>1, <2>2, <2>3, Rotation
<1>2. /\ pc[c] = "run" /\ pc' \in [Cpu -> {"run", "panic"} \cup SyscallStep]
      /\ pc'[c] \in {"run", "panic"} /\ \A d \in Cpu : d # c => pc'[d] = pc[d]
      /\ UNCHANGED <<processes, fdManagers, args, created, child, waiting, ended, fsOf>>
  BY DEF timer_interrupt, TypeOK
<1>3. TypeOK'
  <2>1. next_thread(c) \in Thread
    BY HeadTailProperties DEF TypeOK, next_thread
  <2>2. fsbase' \in [Thread -> Fs]
    BY DEF timer_interrupt, save_fsbase, TypeOK
  <2>3. fs' \in [Cpu -> Fs] /\ rsp0' \in [Cpu -> Thread]
    BY <2>1, <2>2 DEF timer_interrupt, set_ring0_rsp, TypeOK
  <2> QED BY <1>1, <1>2, <2>2, <2>3 DEF TypeOK
<1>4. SyscallState'
  BY <1>1, <1>2 DEF SyscallState, SyscallStep, ExecveStep, TypeOK
<1>5. Placed'
  BY <1>1, <1>2 DEF Placed
<1>6. Accounted'
  BY <1>2 DEF Accounted
<1> QED BY <1>1, <1>3, <1>4, <1>5, <1>6

(* The steps of execve keep the invariant.                                 *)
LEMMA InvNewThread ==
  ASSUME Inv, NEW c \in Cpu, new_user_thread(c)
  PROVE  Inv'
<1> USE DEF Inv
<1>1. PICK p \in Pid \ created :
        /\ created' = created \cup {p}
        /\ ready' = Append(ready, p)
        /\ fsbase' = [fsbase EXCEPT ![p] = fs[c]]
        /\ fsOf' = [fsOf EXCEPT ![p] = fs[c]]
        /\ child' = [child EXCEPT ![c] = p]
  BY Zenon DEF new_user_thread
<1>2. /\ current[c] \in Pid /\ pc[c] = "run" /\ pc' = [pc EXCEPT ![c] = "push"]
      /\ UNCHANGED <<current, processes, fdManagers, args, waiting, fs, rsp0, ended>>
  BY DEF new_user_thread, InUserCode
<1>3. p \in Thread /\ p \notin KernelThread
  BY ConstantsAssumption DEF Thread
<1>4. p \notin Range(ready) /\ p \notin Range(current)
  BY <1>3 DEF Placed
<1>5. /\ ready' \in Seq(Thread) /\ Range(ready') = Range(ready) \cup {p}
      /\ IsInjective(ready')
  BY <1>1, <1>3, <1>4, AppendRange DEF TypeOK, Exclusive
<1>6. TypeOK'
  BY <1>1, <1>2, <1>3, <1>5 DEF TypeOK, SyscallStep
<1>7. SyscallState'
  BY <1>1, <1>2 DEF SyscallState, TypeOK, SyscallStep, ExecveStep
<1>8. Placed'
  BY <1>1, <1>2, <1>5 DEF Placed
<1>9. Exclusive'
  BY <1>2, <1>4, <1>5 DEF Exclusive
<1>10. Accounted'
  <2>1. pc'[c] = "push" /\ child'[c] = p
    BY <1>1, <1>2 DEF TypeOK
  <2>2. \A d \in Cpu : pc[d] = "push" => pc'[d] = "push" /\ child'[d] = child[d]
    BY <1>1, <1>2 DEF TypeOK
  <2> QED BY <1>1, <1>2, <2>1, <2>2 DEF Accounted
<1> QED BY <1>6, <1>7, <1>8, <1>9, <1>10

(* The steps of execve keep the invariant.                                 *)
LEMMA InvExecve ==
  ASSUME Inv, NEW c \in Cpu,
         \/ push_process(c) \/ init_file_descriptor_manager(c)
         \/ store_args(c) \/ execve_return(c)
  PROVE  Inv'
<1> USE DEF Inv
<1>0. /\ UNCHANGED <<current, ready, fs, fsbase, rsp0, created, ended, fsOf>>
      /\ \A d \in Cpu \ {c} : pc'[d] = pc[d] /\ child'[d] = child[d]
      /\ child' \in [Cpu -> Pid \cup {NoPid}]
      /\ pc[c] \in ExecveStep
      /\ \/ pc'[c] \in ExecveStep /\ child'[c] = child[c]
         \/ pc'[c] = "run" /\ child'[c] = NoPid
      /\ processes \subseteq processes'
      /\ pc[c] = "push" => child[c] \in processes'
      /\ pc'[c] # "push"
  BY DEF push_process, init_file_descriptor_manager, store_args, execve_return,
         schedVars, TypeOK, SyscallStep, ExecveStep
<1>1. child[c] \in created /\ child[c] \in Pid /\ current[c] \in Pid
  BY <1>0 DEF SyscallState, ExecveStep, TypeOK
<1>2. TypeOK'
  <2>1. pc' \in [Cpu -> {"run", "panic"} \cup SyscallStep]
    BY DEF push_process, init_file_descriptor_manager, store_args, execve_return,
           TypeOK, SyscallStep
  <2>2. processes' \subseteq Pid \cup {KernelPid} /\ fdManagers' \subseteq Pid
    BY <1>1 DEF push_process, init_file_descriptor_manager, store_args, execve_return,
           TypeOK
  <2>3. args' \in [Pid -> 0..2]
    BY <1>1 DEF push_process, init_file_descriptor_manager, store_args, execve_return,
           TypeOK
  <2>4. waiting' \in [Pid -> Pid \cup {NoPid}]
    BY <1>1 DEF push_process, init_file_descriptor_manager, store_args, execve_return,
           TypeOK
  <2> QED BY <1>0, <2>1, <2>2, <2>3, <2>4 DEF TypeOK
<1>3. SyscallState'
  BY <1>0, <1>1 DEF SyscallState, ExecveStep, SyscallStep
<1>4. Placed' /\ Exclusive'
  BY <1>0 DEF Placed, Exclusive
<1>5. Accounted'
  <2>1. ASSUME NEW p \in created \ ended
        PROVE  p \in processes' \/ \E d \in Cpu : pc'[d] = "push" /\ child'[d] = p
    <3>1. CASE p \in processes
      BY <1>0, <3>1
    <3>2. ASSUME NEW d \in Cpu, pc[d] = "push", child[d] = p
          PROVE  p \in processes' \/ (pc'[d] = "push" /\ child'[d] = p)
      BY <1>0, <3>2
    <3> QED BY <3>1, <3>2 DEF Accounted
  <2> QED BY <1>0, <2>1 DEF Accounted
<1> QED BY <1>2, <1>3, <1>4, <1>5

(* exit and kill keep the invariant.                                       *)
LEMMA InvExit ==
  ASSUME Inv, NEW c \in Cpu, exit(c)
  PROVE  Inv'
<1> USE DEF Inv
<1>1. /\ current[c] \in Pid /\ pc[c] = "run"
      /\ ready' = ready \/ ready' = remove(current[c])
      /\ pc' \in [Cpu -> {"run", "panic"} \cup SyscallStep]
      /\ pc'[c] \in {"panic", "exit"} /\ \A d \in Cpu \ {c} : pc'[d] = pc[d]
      /\ UNCHANGED <<current, processes, fdManagers, args, created, child,
                     waiting, fs, fsbase, rsp0, ended, fsOf>>
  BY DEF exit, InUserCode, TypeOK, SyscallStep
<1>2. /\ ready' \in Seq(Thread) /\ IsInjective(ready')
      /\ Range(ready') \subseteq Range(ready)
  <2>1. CASE ready' = ready BY <2>1 DEF TypeOK, Exclusive
  <2>2. CASE ready' = remove(current[c])
    BY <2>2, RemoveThread DEF Exclusive
  <2> QED BY <1>1, <2>1, <2>2
<1>3. TypeOK'
  BY <1>1, <1>2 DEF TypeOK
<1>4. SyscallState'
  BY <1>1 DEF SyscallState, ExecveStep, SyscallStep
<1>5. Placed' /\ Exclusive'
  BY <1>1, <1>2 DEF Placed, Exclusive
<1>6. Accounted'
  BY <1>1 DEF Accounted
<1> QED BY <1>3, <1>4, <1>5, <1>6

(* The end of exit keeps the invariant.                                    *)
LEMMA InvExitProcess ==
  ASSUME Inv, NEW c \in Cpu, exit_process(c)
  PROVE  Inv'
<1> USE DEF Inv
<1>1. /\ current[c] \in Pid /\ current[c] \in created
      /\ pc[c] = "exit" /\ pc' = [pc EXCEPT ![c] = "run"]
      /\ processes' = processes \ {current[c]} /\ ended' = ended \cup {current[c]}
      /\ UNCHANGED <<current, ready, fs, fsbase, rsp0, fdManagers, args, created,
                     child, waiting, fsOf>>
  <2>1. pc[c] = "exit" /\ current[c] \in Pid /\ current[c] \in Range(current)
    BY DEF exit_process, SyscallState, SyscallStep, TypeOK, Range
  <2>2. current[c] \in created
    BY <2>1, ConstantsAssumption DEF Placed
  <2> QED BY <2>1, <2>2 DEF exit_process, schedVars
<1>2. TypeOK'
  BY <1>1 DEF TypeOK, SyscallStep
<1>3. SyscallState'
  BY <1>1 DEF SyscallState, SyscallStep, ExecveStep, TypeOK
<1>4. Placed' /\ Exclusive'
  BY <1>1 DEF Placed, Exclusive
<1>5. Accounted'
  BY <1>1 DEF Accounted, TypeOK
<1> QED BY <1>2, <1>3, <1>4, <1>5

(* kill keeps the invariant.                                               *)
LEMMA InvKill ==
  ASSUME Inv, NEW c \in Cpu, NEW pid \in KillPids, kill_process(c, pid)
  PROVE  Inv'
<1> USE DEF Inv
<1>1. /\ UNCHANGED <<current, fdManagers, args, created, child, waiting, fs,
                     fsbase, rsp0, fsOf>>
      /\ pc[c] = "run" /\ pc'[c] \in {"run", "panic"}
      /\ \A d \in Cpu \ {c} : pc'[d] = pc[d]
      /\ pc' \in [Cpu -> {"run", "panic"} \cup SyscallStep]
  BY DEF kill_process, InUserCode, TypeOK
<1>2. \/ UNCHANGED <<ready, processes, ended>>
      \/ /\ find(pid) # 0 /\ ready' = remove(ready[find(pid)])
         /\ processes' = processes \ {pid} /\ ended' = ended \cup ({pid} \cap Pid)
  BY DEF kill_process
<1>3. CASE UNCHANGED <<ready, processes, ended>>
  BY <1>1, <1>3 DEF TypeOK, SyscallState, Placed, Exclusive, Accounted, SyscallStep,
                    ExecveStep
<1>4. CASE /\ find(pid) # 0 /\ ready' = remove(ready[find(pid)])
           /\ processes' = processes \ {pid} /\ ended' = ended \cup ({pid} \cap Pid)
  <2>1. /\ ready' \in Seq(Thread) /\ IsInjective(ready')
        /\ Range(ready') \subseteq Range(ready)
    BY <1>4, RemoveThread DEF Exclusive
  <2>2. {pid} \cap Pid \subseteq created
    <3>1. CASE pid \notin Pid BY <3>1
    <3>2. CASE pid \in Pid
      <4>1. ThreadsOf(pid) = {pid}
        BY <3>2, ConstantsAssumption DEF ThreadsOf
      <4>2. pid \in Range(ready)
        BY <1>4, <4>1, FindThread
      <4> QED BY <3>2, <4>2, ConstantsAssumption DEF Placed
    <3> QED BY <3>1, <3>2
  <2>3. TypeOK'
    BY <1>1, <1>4, <2>1 DEF TypeOK
  <2>4. SyscallState'
    BY <1>1 DEF SyscallState, SyscallStep, ExecveStep
  <2>5. Placed' /\ Exclusive'
    BY <1>1, <2>1 DEF Placed, Exclusive
  <2>6. Accounted'
    <3>1. \A d \in Cpu : pc[d] = "push" => pc'[d] = "push" /\ child'[d] = child[d]
      BY <1>1
    <3>2. created' \ ended' = (created \ ended) \ {pid} /\ ended' \subseteq created'
      BY <1>1, <1>4, <2>2 DEF Accounted, TypeOK
    <3> QED BY <1>4, <3>1, <3>2 DEF Accounted
  <2> QED BY <2>3, <2>4, <2>5, <2>6
<1> QED BY <1>2, <1>3, <1>4

(* The remaining steps keep the invariant, so every step does.             *)
LEMMA InvNext == Inv /\ [Next]_vars => Inv'
<1> SUFFICES ASSUME Inv, [Next]_vars PROVE Inv'
  OBVIOUS
<1>1. CASE UNCHANGED vars
  BY <1>1 DEF vars, Inv, TypeOK, SyscallState, Placed, Exclusive, Accounted
<1>2. ASSUME NEW c \in Cpu, wrfsbase(c) PROVE Inv'
  BY <1>2 DEF wrfsbase, InUserCode, Inv, TypeOK, SyscallState, Placed, Exclusive,
              Accounted, Thread
<1>3. ASSUME NEW c \in Cpu, is_exited(c) PROVE Inv'
  BY <1>3 DEF is_exited, schedVars, Inv, TypeOK, SyscallState, Placed, Exclusive,
              Accounted
<1> QED
  BY <1>1, <1>2, <1>3, InvTimer, InvNewThread, InvExecve, InvExit, InvExitProcess,
     InvKill DEF Next, CpuStep

(* The inductive invariant holds in every reachable state.                 *)
THEOREM Invariance == Spec => []Inv
  BY InvInit, InvNext, PTL DEF Spec

(* Every variable of the task subsystem keeps its type, for any number of  *)
(* CPUs and processes.                                                     *)
THEOREM TypeCorrect == Spec => []TypeOK
<1>1. Inv => TypeOK
  BY DEF Inv
<1> QED BY <1>1, Invariance, PTL

(* Scheduler::schedule, add and remove never put a thread on two CPUs,     *)
(* twice into the ready queue, or into the queue while it runs.            *)
THEOREM MutualExclusion == Spec => []Exclusive
<1>1. Inv => Exclusive
  BY DEF Inv
<1> QED BY <1>1, Invariance, PTL

-----------------------------------------------------------------------------
(* What also holds when programs kill user processes only.  kill(0) would  *)
(* find a kernel thread, take it from the ready queue and forget it.       *)

KillsUsersOnly == KillPids \subseteq Pid

(* A thread that has not ended can be upgraded from Weak.                  *)
LEMMA UnendedAlive ==
  ASSUME Inv, NEW t \in KernelThread \cup (created \ ended)
  PROVE  Alive(t)
  BY DEF Inv, Accounted, Alive

(* Every step keeps every thread that has not ended in SCHEDULER.          *)
LEMMA NoThreadLostNext ==
  ASSUME KillsUsersOnly, Inv, NoThreadLost, [Next]_vars
  PROVE  NoThreadLost'
<1> DEFINE Live == KernelThread \cup (created \ ended)
<1>0. Live \subseteq Range(current) \cup Range(ready)
  BY DEF NoThreadLost, Running, Queued
<1> SUFFICES Live' \subseteq Range(current') \cup Range(ready')
  BY DEF NoThreadLost, Running, Queued
<1>1. CASE UNCHANGED <<current, ready, created>> /\ ended \subseteq ended'
  BY <1>0, <1>1
<1>2. ASSUME NEW c \in Cpu, timer_interrupt(c)
      PROVE  Live' \subseteq Range(current') \cup Range(ready')
  <2>1. created' = created /\ ended' = ended
    BY <1>2 DEF timer_interrupt
  <2>2. CASE UNCHANGED <<current, ready>>
    BY <1>1, <2>1, <2>2
  <2>3. ASSUME NEW h \in Range(ready),
               Range(current') = (Range(current) \ {current[c]}) \cup {h},
               Range(ready') = (Range(ready) \ {h}) \cup {t \in {current[c]} : Alive(t)},
               NEW t \in Live
        PROVE  t \in Range(current') \cup Range(ready')
    <3>1. Alive(t)
      BY UnendedAlive
    <3>2. CASE t = current[c]
      BY <2>3, <3>1, <3>2
    <3>3. CASE t # current[c]
      BY <1>0, <2>3, <3>3
    <3> QED BY <3>2, <3>3
  <2> QED BY <1>2, <2>1, <2>2, <2>3, Rotation DEF Inv
<1>3. ASSUME NEW c \in Cpu, new_user_thread(c)
      PROVE  Live' \subseteq Range(current') \cup Range(ready')
  <2>1. PICK p \in Pid : created' = created \cup {p} /\ ready' = Append(ready, p)
    BY <1>3, Zenon DEF new_user_thread
  <2>2. UNCHANGED <<current, ended>>
    BY <1>3 DEF new_user_thread
  <2>3. Range(ready') = Range(ready) \cup {p}
    BY <2>1, AppendRange DEF Inv, TypeOK, Thread
  <2> QED BY <1>0, <2>1, <2>2, <2>3
<1>4. ASSUME NEW c \in Cpu, exit(c)
      PROVE  Live' \subseteq Range(current') \cup Range(ready')
  <2>1. /\ UNCHANGED <<current, created, ended>>
        /\ ready' = ready \/ ready' = remove(current[c])
    BY <1>4 DEF exit
  <2>2. current[c] \in Range(current)
    BY DEF Inv, TypeOK, Range
  <2>3. CASE ready' = ready
    BY <1>1, <2>1, <2>3
  <2>4. CASE ready' = remove(current[c])
    <3>1. Range(ready') = Range(ready) \ {current[c]}
      BY <2>4, RemoveThread DEF Inv, Exclusive
    <3> QED BY <1>0, <2>1, <2>2, <3>1
  <2> QED BY <2>1, <2>3, <2>4
<1>5. ASSUME NEW c \in Cpu, NEW pid \in KillPids, kill_process(c, pid)
      PROVE  Live' \subseteq Range(current') \cup Range(ready')
  <2>1. /\ UNCHANGED <<current, created>>
        /\ \/ UNCHANGED <<ready, ended>>
           \/ /\ find(pid) # 0 /\ ready' = remove(ready[find(pid)])
              /\ ended' = ended \cup ({pid} \cap Pid)
    BY <1>5 DEF kill_process
  <2>2. CASE UNCHANGED <<ready, ended>>
    BY <1>1, <2>1, <2>2
  <2>3. CASE /\ find(pid) # 0 /\ ready' = remove(ready[find(pid)])
             /\ ended' = ended \cup ({pid} \cap Pid)
    <3>1. pid \in Pid /\ ThreadsOf(pid) = {pid}
      BY ConstantsAssumption DEF KillsUsersOnly, ThreadsOf
    <3>2. ready[find(pid)] = pid
      BY <2>3, <3>1, FindThread DEF Inv
    <3>3. Range(ready') = Range(ready) \ {pid}
      BY <2>3, <3>2, RemoveThread DEF Inv, Exclusive
    <3>4. pid \notin KernelThread
      BY <3>1, ConstantsAssumption
    <3> QED BY <1>0, <2>1, <2>3, <3>1, <3>3, <3>4
  <2> QED BY <2>1, <2>2, <2>3
<1>6. ASSUME NEW c \in Cpu,
             \/ wrfsbase(c) \/ push_process(c) \/ init_file_descriptor_manager(c)
             \/ store_args(c) \/ execve_return(c) \/ is_exited(c) \/ exit_process(c)
      PROVE  UNCHANGED <<current, ready, created>> /\ ended \subseteq ended'
  BY <1>6 DEF wrfsbase, push_process, init_file_descriptor_manager, store_args,
              execve_return, is_exited, exit_process, schedVars
<1>7. CASE UNCHANGED vars
  BY <1>1, <1>7 DEF vars
<1> QED
  <2> HIDE DEF Live
  <2> QED BY <1>1, <1>2, <1>3, <1>4, <1>5, <1>6, <1>7 DEF Next, CpuStep

(* No thread that has neither exited nor been killed is ever forgotten.    *)
THEOREM NothingLost ==
  ASSUME KillsUsersOnly
  PROVE  Spec => []NoThreadLost
<1>1. Init => NoThreadLost
  <2> SUFFICES ASSUME Init PROVE NoThreadLost
    OBVIOUS
  <2>1. Cpu \subseteq Range(current)
    BY DEF Init, Range
  <2>2. ready[1] = Keyboard /\ ready[2] = InitPid /\ DOMAIN ready = 1 .. 2
    BY DEF Init, boot_queue
  <2>3. Keyboard \in Range(ready) /\ InitPid \in Range(ready)
    BY <2>2 DEF Range
  <2> QED BY <2>1, <2>3 DEF Init, NoThreadLost, Running, Queued, KernelThread
<1>2. Inv /\ NoThreadLost /\ [Next]_vars => NoThreadLost'
  BY NoThreadLostNext
<1> QED BY <1>1, <1>2, Invariance, PTL DEF Spec

(* There is one kernel thread more than there are CPUs to run them.        *)
LEMMA OneMoreThread ==
  ASSUME TypeOK, NoThreadLost
  PROVE  ReadyNeverEmpty
<1> SUFFICES ASSUME ready = <<>> PROVE FALSE
  BY DEF ReadyNeverEmpty
<1>1. KernelThread \subseteq Range(current)
  <2>1. Range(ready) = {}
    BY DEF Range
  <2> QED BY <2>1 DEF NoThreadLost, Running, Queued
<1>2. \A t \in KernelThread : \E c \in Cpu : current[c] = t
  BY <1>1 DEF Range, TypeOK
<1> DEFINE f == [t \in KernelThread |-> CHOOSE c \in Cpu : current[c] = t]
<1>3. f \in [KernelThread -> Cpu] /\ \A t \in KernelThread : current[f[t]] = t
  BY <1>2
<1>4. /\ IsFiniteSet(Cpu) /\ IsFiniteSet(KernelThread)
      /\ Cardinality(Cpu) < Cardinality(KernelThread)
  <2>1. IsFiniteSet(Cpu) /\ Cardinality(Cpu) \in Nat
    BY ConstantsAssumption, FS_CardinalityType
  <2>2. /\ IsFiniteSet(KernelThread)
        /\ Cardinality(KernelThread) = Cardinality(Cpu) + 1
    BY <2>1, ConstantsAssumption, FS_AddElement DEF KernelThread
  <2> QED BY <2>1, <2>2
<1> HIDE DEF f
<1>5. PICK x \in KernelThread, y \in KernelThread : x # y /\ f[x] = f[y]
  BY <1>3, <1>4, FS_PigeonHole
<1> QED BY <1>3, <1>5

(* schedule always finds a next thread, whatever exits or is killed.       *)
THEOREM AlwaysANextThread ==
  ASSUME KillsUsersOnly
  PROVE  Spec => []ReadyNeverEmpty
<1>1. TypeOK /\ NoThreadLost => ReadyNeverEmpty
  BY OneMoreThread
<1> QED BY <1>1, TypeCorrect, NothingLost, PTL

-----------------------------------------------------------------------------
(* The context a CPU loads.                                                *)

(* No step but the timer interrupt moves a thread or its stack pointer,    *)
(* and nothing releases SCHEDULER after a panic.                           *)
LEMMA OtherSteps ==
  ASSUME Inv, [Next]_vars, ~ \E c \in Cpu : timer_interrupt(c)
  PROVE  UNCHANGED <<current, rsp0>> /\ (SchedulerFree' => SchedulerFree)
<1>1. CASE UNCHANGED vars
  BY <1>1 DEF vars, SchedulerFree
<1>2. ASSUME NEW c \in Cpu, CpuStep(c)
      PROVE  /\ UNCHANGED <<current, rsp0>>
             /\ pc[c] # "panic" /\ \A d \in Cpu \ {c} : pc'[d] = pc[d]
  <2>1. CASE new_user_thread(c) \/ wrfsbase(c)
    BY <2>1 DEF new_user_thread, wrfsbase, InUserCode, Inv, TypeOK
  <2>2. CASE \/ push_process(c) \/ init_file_descriptor_manager(c)
             \/ store_args(c) \/ execve_return(c)
    BY <2>2 DEF push_process, init_file_descriptor_manager, store_args,
                execve_return, schedVars, Inv, TypeOK
  <2>3. CASE is_exited(c) \/ exit(c) \/ exit_process(c)
    BY <2>3 DEF is_exited, exit, exit_process, schedVars, InUserCode, Inv, TypeOK
  <2>4. CASE \E pid \in KillPids : kill_process(c, pid)
    BY <2>4 DEF kill_process, InUserCode, Inv, TypeOK
  <2> QED BY <1>2, <2>1, <2>2, <2>3, <2>4 DEF CpuStep
<1> QED BY <1>1, <1>2 DEF Next, SchedulerFree

(* The TSS of a CPU always names the kernel stack of the thread it runs.   *)
THEOREM OwnInterruptStack == Spec => []InterruptStack
<1>1. Init => InterruptStack
  BY DEF Init, InterruptStack
<1>2. Inv /\ InterruptStack /\ [Next]_vars => InterruptStack'
  <2> SUFFICES ASSUME Inv, InterruptStack, [Next]_vars PROVE InterruptStack'
    OBVIOUS
  <2>1. ASSUME NEW c \in Cpu, timer_interrupt(c) PROVE InterruptStack'
    <3> SUFFICES ASSUME NEW d \in Cpu, SchedulerFree' PROVE rsp0'[d] = current'[d]
      BY DEF InterruptStack
    <3>1. SchedulerFree /\ pc'[c] # "panic"
      BY <2>1 DEF timer_interrupt, SchedulerFree
    <3>2. Alive(next_thread(c))
      BY <2>1, <3>1 DEF timer_interrupt, Inv, TypeOK
    <3>3. /\ current' = [current EXCEPT ![c] = next_thread(c)]
          /\ rsp0' = [rsp0 EXCEPT ![c] = next_thread(c)]
      BY <2>1, <3>2 DEF timer_interrupt, set_ring0_rsp
    <3> QED BY <3>1, <3>3 DEF InterruptStack, Inv, TypeOK
  <2>2. CASE ~ \E c \in Cpu : timer_interrupt(c)
    BY <2>2, OtherSteps DEF InterruptStack
  <2> QED BY <2>1, <2>2
<1> QED BY <1>1, <1>2, Invariance, PTL DEF Spec

(* The timer interrupt loads the FS base that the next thread last had,    *)
(* and saves that of the thread it replaces.                               *)
LEMMA FsTimer ==
  ASSUME Inv, ReadyNeverEmpty, FsPreserved, NEW c \in Cpu, timer_interrupt(c)
  PROVE  FsPreserved'
<1>0. /\ current \in [Cpu -> Thread] /\ ready \in Seq(Thread) /\ ready # <<>>
      /\ fs \in [Cpu -> Fs] /\ fsbase \in [Thread -> Fs] /\ pc[c] = "run"
      /\ SchedulerFree /\ fsOf' = fsOf /\ fs[c] = fsOf[current[c]]
  BY DEF Inv, TypeOK, ReadyNeverEmpty, timer_interrupt, FsPreserved
<1> DEFINE h == Head(ready)
<1>1. h \in Range(ready) /\ next_thread(c) = h
  BY <1>0, TailRange DEF next_thread
<1>2. current[c] \in Range(current) /\ current[c] \in Thread /\ current[c] # h
  BY <1>0, <1>1 DEF Inv, Exclusive, Range
<1>3. /\ \A t \in Thread \ {current[c]} : fsbase'[t] = fsbase[t]
      /\ Alive(current[c]) => fsbase'[current[c]] = fsOf[current[c]]
  BY <1>0, <1>2 DEF timer_interrupt, save_fsbase
<1>4. /\ \A t \in Range(ready') :
           t \in Range(ready) \/ (t = current[c] /\ Alive(t))
  BY <1>0, Rotation DEF Inv
<1>5. \A t \in Range(ready) : t \in Thread /\ t # current[c] /\ fsbase[t] = fsOf[t]
  BY <1>0, <1>2, RangeOfSeq DEF FsPreserved, Inv, Exclusive
<1>6. \A t \in Range(ready') : fsbase'[t] = fsOf'[t]
  BY <1>0, <1>3, <1>4, <1>5
<1>7. ASSUME SchedulerFree', NEW d \in Cpu
      PROVE  fs'[d] = fsOf'[current'[d]]
  <2>1. Alive(next_thread(c))
    BY <1>7 DEF timer_interrupt, SchedulerFree, Inv, TypeOK
  <2>2. /\ fs' = [fs EXCEPT ![c] = fsbase'[h]]
        /\ current' = [current EXCEPT ![c] = h]
    BY <1>1, <2>1 DEF timer_interrupt
  <2>3. fsbase'[h] = fsOf[h]
    BY <1>1, <1>3, <1>5
  <2> HIDE DEF h
  <2> QED BY <1>0, <2>2, <2>3 DEF FsPreserved
<1> QED BY <1>6, <1>7 DEF FsPreserved

(* Every living thread is in exactly one place and schedule always finds a  *)
(* next one, for any number of CPUs and processes.                          *)
THEOREM Scheduling ==
  ASSUME KillsUsersOnly
  PROVE  Spec => []ThreadsSound
<1>1. TypeOK /\ Exclusive /\ NoThreadLost /\ ReadyNeverEmpty => ThreadsSound
  BY DEF ThreadsSound
<1> QED BY <1>1, TypeCorrect, MutualExclusion, NothingLost, AlwaysANextThread, PTL

(* Every thread keeps its FS base across switches and CPU migrations.      *)
THEOREM ContextPreserved ==
  ASSUME KillsUsersOnly
  PROVE  Spec => []FsPreserved
<1>1. Init => FsPreserved
  <2> SUFFICES ASSUME Init PROVE FsPreserved
    OBVIOUS
  <2>1. Range(ready) \subseteq Thread /\ current \in [Cpu -> Thread]
    BY InvInit, RangeOfSeq DEF Inv, TypeOK
  <2> QED BY <2>1 DEF Init, FsPreserved
<1>2. Inv /\ ReadyNeverEmpty /\ FsPreserved /\ [Next]_vars => FsPreserved'
  <2> SUFFICES ASSUME Inv, ReadyNeverEmpty, FsPreserved, [Next]_vars
               PROVE  FsPreserved'
    OBVIOUS
  <2>0. Range(ready) \subseteq Thread /\ current \in [Cpu -> Thread]
    BY RangeOfSeq DEF Inv, TypeOK
  <2>1. ASSUME NEW c \in Cpu, timer_interrupt(c) PROVE FsPreserved'
    BY <2>1, FsTimer
  <2>2. ASSUME NEW c \in Cpu, wrfsbase(c) PROVE FsPreserved'
    <3>1. PICK v \in Fs : /\ fs' = [fs EXCEPT ![c] = v]
                          /\ fsOf' = [fsOf EXCEPT ![current[c]] = v]
      BY <2>2 DEF wrfsbase
    <3>2. UNCHANGED <<current, ready, fsbase, pc>>
      BY <2>2 DEF wrfsbase
    <3>3. \A t \in Range(ready) : t # current[c]
      BY <2>0 DEF Inv, Exclusive, Range
    <3>4. \A d \in Cpu \ {c} : current[d] # current[c]
      BY <2>0 DEF Inv, Exclusive, IsInjective
    <3>5. \A t \in Range(ready) : fsbase[t] = fsOf'[t]
      BY <2>0, <3>1, <3>3 DEF FsPreserved, Inv, TypeOK
    <3>6. ASSUME SchedulerFree, NEW d \in Cpu PROVE fs'[d] = fsOf'[current[d]]
      BY <2>0, <3>1, <3>4, <3>6 DEF FsPreserved, Inv, TypeOK
    <3> QED BY <3>2, <3>5, <3>6 DEF FsPreserved, SchedulerFree
  <2>3. ASSUME NEW c \in Cpu, new_user_thread(c) PROVE FsPreserved'
    <3>1. PICK p \in Pid \ created :
            /\ ready' = Append(ready, p)
            /\ fsbase' = [fsbase EXCEPT ![p] = fs[c]]
            /\ fsOf' = [fsOf EXCEPT ![p] = fs[c]]
      BY <2>3, Zenon DEF new_user_thread
    <3>2. UNCHANGED <<current, fs>>
      BY <2>3 DEF new_user_thread
    <3>3. p \in Thread /\ p \notin Range(current)
      BY ConstantsAssumption DEF Inv, Placed, Thread
    <3>4. Range(ready') = Range(ready) \cup {p}
      BY <3>1, <3>3, AppendRange DEF Inv, TypeOK
    <3>5. \A t \in Range(ready') : fsbase'[t] = fsOf'[t]
      BY <2>0, <3>1, <3>3, <3>4 DEF FsPreserved, Inv, TypeOK
    <3>6. \A d \in Cpu : fsOf'[current[d]] = fsOf[current[d]]
      BY <2>0, <3>1, <3>3 DEF Range, Inv, TypeOK
    <3>7. SchedulerFree
      BY <2>3 DEF new_user_thread
    <3> QED BY <3>2, <3>5, <3>6, <3>7 DEF FsPreserved
  <2>4. ASSUME UNCHANGED <<current, fs, fsbase, fsOf>>,
               Range(ready') \subseteq Range(ready),
               SchedulerFree' => SchedulerFree
        PROVE  FsPreserved'
    BY <2>4 DEF FsPreserved
  <2>5. ASSUME NEW c \in Cpu,
               \/ push_process(c) \/ init_file_descriptor_manager(c) \/ store_args(c)
               \/ execve_return(c) \/ is_exited(c) \/ exit_process(c)
        PROVE  UNCHANGED <<current, ready, fs, fsbase, fsOf>>
    BY <2>5 DEF push_process, init_file_descriptor_manager, store_args,
                execve_return, is_exited, exit_process, schedVars
  <2>6. ASSUME NEW c \in Cpu, exit(c) \/ \E pid \in KillPids : kill_process(c, pid)
        PROVE  /\ UNCHANGED <<current, fs, fsbase, fsOf>>
               /\ Range(ready') \subseteq Range(ready)
    <3>1. /\ UNCHANGED <<current, fs, fsbase, fsOf>>
          /\ ready' = ready \/ \E t : ready' = remove(t)
      BY <2>6 DEF exit, kill_process
    <3> QED BY <3>1, RemoveThread DEF Inv, Exclusive
  <2>7. CASE UNCHANGED vars
    BY <2>7 DEF vars, FsPreserved, SchedulerFree
  <2> QED
    BY <2>1, <2>2, <2>3, <2>4, <2>5, <2>6, <2>7, OtherSteps DEF Next, CpuStep
<1> QED BY <1>1, <1>2, Invariance, AlwaysANextThread, PTL DEF Spec

(* A switch gives a thread its own FS base and kernel stack back.           *)
THEOREM Switching ==
  ASSUME KillsUsersOnly
  PROVE  Spec => []ContextSound
<1>1. FsPreserved /\ InterruptStack => ContextSound
  BY DEF ContextSound
<1> QED BY <1>1, ContextPreserved, OwnInterruptStack, PTL

-----------------------------------------------------------------------------
(* The scheduler implements the abstract run queue.                        *)

(* At boot every CPU runs its idle thread, and nothing else was admitted.   *)
LEMMA RunQueueInit == Init => RQ!Init
<1> SUFFICES ASSUME Init PROVE RQ!Init
  OBVIOUS
<1>1. Inv
  BY InvInit
<1>2. Range(current) = Cpu /\ Range(ready) = {Keyboard, InitPid}
  <2>1. Range(current) = Cpu
    BY DEF Init, Range
  <2>2. DOMAIN ready = 1 .. 2 /\ ready[1] = Keyboard /\ ready[2] = InitPid
    BY DEF Init, boot_queue
  <2>3. Range(ready) = {ready[1], ready[2]}
    BY <2>2 DEF Range
  <2> QED BY <2>1, <2>2, <2>3
<1>3. RQ!Range(current) = Range(current)
  BY DEF RQ!Range, Range
<1>4. RQ!IsInjective(current)
  BY <1>1 DEF Inv, Exclusive, IsInjective, RQ!IsInjective
<1>5. Range(ready) \subseteq Thread \ Range(current)
  BY <1>1, RangeOfSeq DEF Inv, TypeOK, Exclusive
<1>6. KernelThread \cup created = Range(ready) \cup Range(current)
  BY <1>2 DEF Init, KernelThread
<1> QED BY <1>1, <1>3, <1>4, <1>5, <1>6 DEF RQ!Init, Inv, TypeOK

(* Every step of the scheduler admits, withdraws or switches, or is none.   *)
LEMMA RunQueueStep ==
  ASSUME Inv, [Next]_vars
  PROVE  [RQ!Next]_RQ!rqVars
<1> DEFINE admitted == KernelThread \cup created
<1>0. current \in [Cpu -> Thread] /\ Range(ready) \subseteq Thread
  BY RangeOfSeq DEF Inv, TypeOK
<1>1. CASE UNCHANGED <<current, ready, created>>
  BY <1>1 DEF RQ!rqVars
<1>2. ASSUME NEW c \in Cpu, timer_interrupt(c) PROVE [RQ!Next]_RQ!rqVars
  <2>1. created' = created
    BY <1>2 DEF timer_interrupt
  <2>2. CASE UNCHANGED <<current, ready>>
    BY <1>1, <2>1, <2>2
  <2>3. ASSUME NEW h \in Range(ready), current'[c] = h,
               \A d \in Cpu \ {c} : current'[d] = current[d],
               Range(ready') = (Range(ready) \ {h}) \cup {t \in {current[c]} : Alive(t)}
        PROVE  RQ!Switch(c, h)
    <3>1. current' = [current EXCEPT ![c] = h]
      <4>1. current' \in [Cpu -> Thread]
        BY <1>2, Rotation DEF Inv
      <4> QED BY <1>0, <2>3, <4>1
    <3>2. \/ Range(ready') = Range(ready) \ {h}
          \/ Range(ready') = (Range(ready) \ {h}) \cup {current[c]}
      <4>1. CASE Alive(current[c])
        <5>1. {t \in {current[c]} : Alive(t)} = {current[c]} BY <4>1
        <5> QED BY <2>3, <5>1
      <4>2. CASE ~ Alive(current[c])
        <5>1. {t \in {current[c]} : Alive(t)} = {} BY <4>2
        <5> QED BY <2>3, <5>1
      <4> QED BY <4>1, <4>2
    <3> QED BY <2>1, <3>1, <3>2 DEF RQ!Switch
  <2> QED BY <1>0, <1>2, <2>2, <2>3, Rotation DEF RQ!Next, Inv
<1>3. ASSUME NEW c \in Cpu, new_user_thread(c) PROVE [RQ!Next]_RQ!rqVars
  <2>1. PICK p \in Pid \ created : created' = created \cup {p} /\ ready' = Append(ready, p)
    BY <1>3, Zenon DEF new_user_thread
  <2>2. current' = current
    BY <1>3 DEF new_user_thread
  <2>3. p \in Thread /\ p \notin admitted
    BY ConstantsAssumption DEF Thread
  <2>4. Range(ready') = Range(ready) \cup {p}
    BY <2>1, <2>3, AppendRange DEF Inv, TypeOK
  <2>5. admitted' = admitted \cup {p}
    BY <2>1
  <2>6. RQ!Admit(p)
    BY <2>2, <2>3, <2>4, <2>5 DEF RQ!Admit
  <2> QED BY <2>3, <2>6 DEF RQ!Next
<1>4. ASSUME NEW t, UNCHANGED <<current, created>>, ready' = remove(t)
      PROVE  [RQ!Next]_RQ!rqVars
  <2>1. Range(ready') = Range(ready) \ {t}
    BY <1>4, RemoveThread DEF Inv, Exclusive
  <2>2. CASE t \in Range(ready)
    <3>1. RQ!Withdraw(t)
      BY <1>4, <2>1, <2>2 DEF RQ!Withdraw
    <3> QED BY <1>0, <2>2, <3>1 DEF RQ!Next
  <2>3. CASE t \notin Range(ready)
    BY <1>4, <2>1, <2>3 DEF RQ!rqVars
  <2> QED BY <2>2, <2>3
<1>5. ASSUME NEW c \in Cpu, exit(c) \/ \E pid \in KillPids : kill_process(c, pid)
      PROVE  [RQ!Next]_RQ!rqVars
  <2>1. UNCHANGED <<current, created>> /\ (ready' = ready \/ \E t : ready' = remove(t))
    BY <1>5 DEF exit, kill_process
  <2> QED BY <1>1, <1>4, <2>1
<1>6. ASSUME NEW c \in Cpu,
             \/ wrfsbase(c) \/ push_process(c) \/ init_file_descriptor_manager(c)
             \/ store_args(c) \/ execve_return(c) \/ is_exited(c) \/ exit_process(c)
      PROVE  UNCHANGED <<current, ready, created>>
  BY <1>6 DEF wrfsbase, push_process, init_file_descriptor_manager, store_args,
              execve_return, is_exited, exit_process, schedVars
<1>7. CASE UNCHANGED vars
  BY <1>1, <1>7 DEF vars
<1> QED BY <1>1, <1>2, <1>3, <1>5, <1>6, <1>7 DEF Next, CpuStep

(* Each step of the code is one step of the abstract run queue or none.    *)
THEOREM ImplementsRunQueue == Spec => RunQueueSpec
<1>1. Inv /\ [Next]_vars => [RQ!Next]_RQ!rqVars
  BY RunQueueStep
<1> QED BY <1>1, RunQueueInit, Invariance, PTL DEF Spec, RunQueueSpec, RQ!Spec

-----------------------------------------------------------------------------
(* The process tables on one CPU.  There a system call is never overtaken: *)
(* nobody sees a process that execve has only half made.  On more CPUs     *)
(* this is false, as the run tasks_smp_unwrap shows.                       *)

OneCpu == \A c, d \in Cpu : c = d

(* What new_user_process and execve leave behind when they return.         *)
Complete(p) == p \in processes \cap fdManagers /\ (p # InitPid => args[p] = 2)

(* How far execve is with its child, which waits in the ready queue.       *)
ChildState(c) ==
  /\ child[c] \in Range(ready)
  /\ pc[c] # "push" => child[c] \in processes
  /\ pc[c] \in {"args_value", "args_len", "return"} => child[c] \in fdManagers
  /\ pc[c] = "return" => args[child[c]] = 2

UpInv ==
  /\ SchedulerFree
  /\ EndedForGood
  /\ \A c \in Cpu : pc[c] \in ExecveStep => ChildState(c)
  /\ \A p \in created \ ended :
       Complete(p) \/ \E c \in Cpu : pc[c] \in ExecveStep /\ child[c] = p

(* The tables then agree with what is queued and what runs.                *)
LEMMA UpTables ==
  ASSUME Inv, UpInv
  PROVE  TablesSound
<1>1. ASSUME NEW t \in Range(ready) PROVE Alive(t) /\ t \notin ended
  <2>1. t \notin ended
    BY DEF UpInv, EndedForGood, Queued
  <2>2. t \in KernelThread \/ t \in created \ ended
    BY <2>1 DEF Inv, Placed
  <2> QED BY <2>1, <2>2 DEF UpInv, Complete, Alive
<1>2. ASSUME NEW c \in Cpu, current[c] \in Pid \ ended PROVE Complete(current[c])
  <2>1. current[c] \in Range(current)
    BY DEF Inv, TypeOK, Range
  <2>2. current[c] \in created \ ended
    BY <1>2, <2>1, ConstantsAssumption DEF Inv, Placed
  <2>3. current[c] \notin Range(ready)
    BY <2>1 DEF Inv, Exclusive
  <2> QED BY <2>2, <2>3 DEF UpInv, ChildState
<1> QED BY <1>1, <1>2 DEF UpInv, TablesSound, NoDeadThreadQueued, ProcessComplete, Complete

(* Boot leaves init complete.                                              *)
LEMMA UpInit == Init => UpInv
<1> SUFFICES ASSUME Init PROVE UpInv
  OBVIOUS
<1>1. SchedulerFree /\ EndedForGood
  BY DEF Init, SchedulerFree, EndedForGood
<1>2. \A c \in Cpu : pc[c] \notin ExecveStep
  BY DEF Init, ExecveStep, SyscallStep
<1>3. \A p \in created : Complete(p)
  BY DEF Init, Complete
<1> QED BY <1>1, <1>2, <1>3 DEF UpInv

(* The timer interrupt drops an ended thread and never unwraps a dead one. *)
LEMMA UpTimer ==
  ASSUME OneCpu, Inv, UpInv, ReadyNeverEmpty, NEW c \in Cpu, timer_interrupt(c)
  PROVE  UpInv'
<1>1. pc[c] = "run" /\ \A d \in Cpu : pc[d] = "run" /\ child[d] = NoPid
  BY DEF OneCpu, timer_interrupt, Inv, SyscallState, ExecveStep, SyscallStep
<1>2. \A t \in Range(ready) : Alive(t)
  BY UpTables DEF TablesSound, NoDeadThreadQueued
<1>3. Alive(next_thread(c))
  <2>1. ready \in Seq(Thread) /\ ready # <<>>
    BY DEF Inv, TypeOK, ReadyNeverEmpty
  <2> QED BY <1>2, <2>1, TailRange DEF next_thread
<1>4. pc' = pc /\ UNCHANGED <<processes, fdManagers, args, created, child, ended>>
  BY <1>3 DEF timer_interrupt
<1>5. \A t \in Range(ready') : t \in Range(ready) \/ (t = current[c] /\ Alive(t))
  BY Rotation DEF Inv
<1>6. ASSUME NEW p \in ended PROVE p \notin Range(ready') /\ p \notin processes
  <2>1. p \in Pid /\ p \notin processes /\ p \notin Range(ready)
    BY DEF UpInv, EndedForGood, Queued, Inv, TypeOK
  <2>2. ~ Alive(p)
    BY <1>1, <2>1, ConstantsAssumption DEF Alive
  <2> QED BY <1>5, <2>1, <2>2
<1>7. EndedForGood'
  BY <1>4, <1>6 DEF EndedForGood, Queued
<1>8. \A p \in created \ ended : Complete(p)'
  BY <1>1, <1>4 DEF UpInv, Complete, ExecveStep, SyscallStep
<1> QED BY <1>1, <1>4, <1>7, <1>8 DEF UpInv, SchedulerFree, ExecveStep, SyscallStep

(* execve makes its child one table after the other.                       *)
LEMMA UpNewThread ==
  ASSUME OneCpu, Inv, UpInv, NEW c \in Cpu, new_user_thread(c)
  PROVE  UpInv'
<1>1. PICK p \in Pid \ created :
        /\ created' = created \cup {p}
        /\ ready' = Append(ready, p)
        /\ child' = [child EXCEPT ![c] = p]
  BY DEF new_user_thread
<1>2. /\ pc[c] = "run" /\ pc' = [pc EXCEPT ![c] = "push"]
      /\ UNCHANGED <<processes, fdManagers, args, ended>>
  BY DEF new_user_thread, InUserCode
<1>3. \A d \in Cpu : d = c
  BY DEF OneCpu
<1>4. child'[c] = p /\ pc'[c] = "push"
  BY <1>1, <1>2 DEF Inv, TypeOK
<1>5. Range(ready') = Range(ready) \cup {p}
  <2>1. ready \in Seq(Thread) /\ p \in Thread
    BY DEF Inv, TypeOK, Thread
  <2> QED BY <1>1, <2>1, AppendRange
<1>6. p \notin ended
  BY DEF Inv, Accounted
<1>7. EndedForGood'
  BY <1>2, <1>5, <1>6 DEF UpInv, EndedForGood, Queued
<1>8. \A q \in created \ ended : Complete(q)'
  BY <1>2, <1>3 DEF UpInv, Complete, ExecveStep, SyscallStep
<1>9. SchedulerFree'
  BY <1>3, <1>4 DEF SchedulerFree
<1>10. ChildState(c)'
  BY <1>4, <1>5 DEF ChildState
<1>11. pc'[c] \in ExecveStep
  BY <1>4 DEF ExecveStep, SyscallStep
<1> QED BY <1>1, <1>2, <1>3, <1>4, <1>7, <1>8, <1>9, <1>10, <1>11 DEF UpInv

(* The later steps of execve complete it.                                  *)
LEMMA UpExecve ==
  ASSUME OneCpu, Inv, UpInv, NEW c \in Cpu,
         \/ push_process(c) \/ init_file_descriptor_manager(c)
         \/ store_args(c) \/ execve_return(c)
  PROVE  UpInv'
<1>1. \A d \in Cpu : d = c
  BY DEF OneCpu
<1>2. pc[c] \in ExecveStep /\ UNCHANGED <<ready, created, ended>>
  BY DEF push_process, init_file_descriptor_manager, store_args, execve_return, schedVars,
         ExecveStep, SyscallStep
<1>3. ChildState(c) /\ child[c] \in Pid /\ child[c] \notin ended
  BY <1>2 DEF UpInv, ChildState, EndedForGood, Queued, Inv, SyscallState, TypeOK
<1>4. /\ processes' = processes \/ processes' = processes \cup {child[c]}
      /\ fdManagers \subseteq fdManagers'
      /\ \A q \in Pid : q # child[c] => args'[q] = args[q]
  BY DEF push_process, init_file_descriptor_manager, store_args, execve_return, Inv, TypeOK
<1>5. EndedForGood'
  BY <1>2, <1>3, <1>4 DEF UpInv, EndedForGood, Queued
<1>6. SchedulerFree'
  BY <1>1 DEF push_process, init_file_descriptor_manager, store_args, execve_return,
              SchedulerFree, Inv, TypeOK
<1>7. ASSUME NEW q \in created \ ended, q # child[c] PROVE Complete(q)'
  <2>1. Complete(q)
    BY <1>1, <1>7 DEF UpInv
  <2> QED BY <1>4, <1>7, <2>1 DEF Complete, Inv, TypeOK
<1>8. CASE execve_return(c)
  <2>1. \A q : q = child[c] => Complete(q)'
    BY <1>3, <1>8 DEF execve_return, ChildState, Complete
  <2>2. pc'[c] = "run"
    BY <1>8 DEF execve_return, Inv, TypeOK
  <2> QED BY <1>1, <1>2, <1>5, <1>6, <1>7, <2>1, <2>2 DEF UpInv, ExecveStep, SyscallStep
<1>9. CASE push_process(c) \/ init_file_descriptor_manager(c) \/ store_args(c)
  <2>1. child' = child
    BY <1>9 DEF push_process, init_file_descriptor_manager, store_args
  <2>2. ChildState(c)'
    <3>1. CASE push_process(c)
      BY <3>1, <1>3 DEF push_process, schedVars, ChildState, Inv, TypeOK
    <3>2. CASE init_file_descriptor_manager(c)
      BY <3>2, <1>3 DEF init_file_descriptor_manager, schedVars, ChildState, Inv, TypeOK
    <3>3. CASE store_args(c)
      BY <3>3, <1>3 DEF store_args, schedVars, ChildState, Inv, TypeOK
    <3> QED BY <1>9, <3>1, <3>2, <3>3
  <2>3. pc'[c] \in ExecveStep
    BY <1>9 DEF push_process, init_file_descriptor_manager, store_args, ExecveStep, SyscallStep,
                Inv, TypeOK
  <2> QED BY <1>1, <1>2, <1>5, <1>6, <1>7, <2>1, <2>2, <2>3 DEF UpInv
<1> QED BY <1>8, <1>9

(* exit and kill take a process out of the queue and of PROCESSES.         *)
LEMMA UpExit ==
  ASSUME OneCpu, Inv, UpInv, NEW c \in Cpu, exit(c) \/ exit_process(c)
  PROVE  UpInv'
<1>1. \A d \in Cpu : d = c
  BY DEF OneCpu
<1>2. pc[c] \notin ExecveStep /\ UNCHANGED <<created, fdManagers, args, child>>
  BY DEF exit, exit_process, InUserCode, ExecveStep, SyscallStep
<1>3. \A q \in created \ ended : Complete(q)
  BY <1>1, <1>2 DEF UpInv
<1>4. CASE exit(c)
  <2>1. \A t \in Range(ready) : Alive(t)
    BY UpTables DEF TablesSound, NoDeadThreadQueued
  <2>2. ready' = remove(current[c]) /\ pc' = [pc EXCEPT ![c] = "exit"] /\ UNCHANGED <<processes, ended>>
    BY <1>4, <2>1 DEF exit
  <2>3. Range(ready') \subseteq Range(ready)
    BY <2>2, RemoveThread DEF Inv, Exclusive
  <2>4. pc'[c] = "exit"
    BY <2>2 DEF Inv, TypeOK
  <2>5. EndedForGood'
    BY <2>2, <2>3 DEF UpInv, EndedForGood, Queued
  <2>6. SchedulerFree'
    BY <1>1, <2>4 DEF SchedulerFree
  <2>7. \A q \in created \ ended : Complete(q)'
    BY <1>2, <1>3, <2>2 DEF Complete
  <2> QED BY <1>1, <1>2, <2>2, <2>4, <2>5, <2>6, <2>7 DEF UpInv, ExecveStep
<1>5. CASE exit_process(c)
  <2>1. /\ processes' = processes \ {current[c]} /\ ended' = ended \cup {current[c]}
        /\ pc' = [pc EXCEPT ![c] = "run"] /\ ready' = ready
    BY <1>5 DEF exit_process, schedVars
  <2>2. current[c] \notin Range(ready)
    BY DEF Inv, TypeOK, Exclusive, Range
  <2>3. EndedForGood'
    BY <2>1, <2>2 DEF UpInv, EndedForGood, Queued
  <2>4. pc'[c] = "run"
    BY <2>1 DEF Inv, TypeOK
  <2>5. SchedulerFree'
    BY <1>1, <2>4 DEF SchedulerFree
  <2>6. \A q \in created' \ ended' : Complete(q)'
    BY <1>2, <1>3, <2>1 DEF Complete
  <2> QED BY <1>1, <2>3, <2>4, <2>5, <2>6 DEF UpInv, ExecveStep, SyscallStep
<1> QED BY <1>4, <1>5

(* kill ends exactly the process it names.                                 *)
LEMMA UpKill ==
  ASSUME KillsUsersOnly, OneCpu, Inv, UpInv, NEW c \in Cpu, NEW pid \in KillPids, kill_process(c, pid)
  PROVE  UpInv'
<1>1. \A d \in Cpu : d = c
  BY DEF OneCpu
<1>2. \A t \in Range(ready) : Alive(t)
  BY UpTables DEF TablesSound, NoDeadThreadQueued
<1>3. /\ find(pid) # 0 /\ ready' = remove(ready[find(pid)])
      /\ processes' = processes \ {pid} /\ ended' = ended \cup ({pid} \cap Pid)
      /\ pc' = pc /\ pc[c] = "run"
      /\ UNCHANGED <<fdManagers, args, created, child>>
  BY <1>2 DEF kill_process, InUserCode
<1>4. pid \in Pid /\ ThreadsOf(pid) = {pid}
  BY ConstantsAssumption DEF KillsUsersOnly, ThreadsOf
<1>5. ready[find(pid)] = pid
  BY <1>3, <1>4, FindThread DEF Inv
<1>6. Range(ready') = Range(ready) \ {pid}
  BY <1>3, <1>5, RemoveThread DEF Inv, Exclusive
<1>7. EndedForGood'
  BY <1>3, <1>6 DEF UpInv, EndedForGood, Queued
<1>8. \A q \in created \ ended : Complete(q)
  BY <1>1, <1>3 DEF UpInv, ExecveStep, SyscallStep
<1>9. \A q \in created' \ ended' : Complete(q)'
  BY <1>3, <1>4, <1>8 DEF Complete
<1> QED BY <1>1, <1>3, <1>7, <1>9 DEF UpInv, SchedulerFree, ExecveStep, SyscallStep

(* Every step of the one CPU keeps the tables in this state.               *)
LEMMA UpNext ==
  ASSUME KillsUsersOnly, OneCpu, Inv, UpInv, ReadyNeverEmpty, [Next]_vars
  PROVE  UpInv'
<1>1. CASE UNCHANGED vars
  BY <1>1 DEF vars, UpInv, SchedulerFree, EndedForGood, Queued, ChildState, Complete
<1>2. ASSUME NEW c \in Cpu, wrfsbase(c) \/ is_exited(c) PROVE UpInv'
  BY <1>2 DEF wrfsbase, is_exited, schedVars, UpInv, SchedulerFree, EndedForGood, Queued,
              ChildState, Complete
<1> QED
  BY <1>1, <1>2, UpTimer, UpNewThread, UpExecve, UpExit, UpKill DEF Next, CpuStep

(* On one CPU every Weak that schedule, find and remove unwrap can be      *)
(* upgraded, and a program that runs has its descriptors, its entry in     *)
(* PROCESSES and its arguments, however many processes come and go.        *)
THEOREM TablesOnOneCpu ==
  ASSUME KillsUsersOnly, OneCpu
  PROVE  Spec => []TablesSound
<1>1. Inv /\ UpInv /\ ReadyNeverEmpty /\ [Next]_vars => UpInv'
  BY UpNext
<1>2. Inv /\ UpInv => TablesSound
  BY UpTables
<1> QED BY <1>1, <1>2, UpInit, Invariance, AlwaysANextThread, PTL DEF Spec

(* On one CPU a process that exited or was killed stays out of PROCESSES   *)
(* and out of the ready queue for good.                                    *)
THEOREM EndedOnOneCpu ==
  ASSUME KillsUsersOnly, OneCpu
  PROVE  Spec => []EndedForGood
<1>1. Inv /\ UpInv /\ ReadyNeverEmpty /\ [Next]_vars => UpInv'
  BY UpNext
<1>2. UpInv => EndedForGood
  BY DEF UpInv
<1> QED BY <1>1, <1>2, UpInit, Invariance, AlwaysANextThread, PTL DEF Spec
=============================================================================
