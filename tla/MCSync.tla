------------------------------- MODULE MCSync -------------------------------
(***************************************************************************)
(* The synchronisation primitives and the thread life cycle of relibc, and *)
(* the terminal and the boot of the kernel: what has liveness properties,  *)
(* checked one at a time.  KIND says which of them a behaviour is about.   *)
(* The variables of it are pc, asleep and the slots s1, s2, ...; one that  *)
(* is not used is 0.                                                       *)
(***************************************************************************)
EXTENDS Naturals, FiniteSets

CONSTANTS
  Thread,
  Consumer, Producer,   \* a partition of Thread, for the condition variable
  Nobody,               \* the owner of a free mutex
  MaxItems,             \* bound: items that are produced
  CondWord,             \* the modulus of the words of the condition variable
  MaxRounds,            \* bound: how often each thread waits at the barrier
  BarrierWord,          \* the modulus of the words of the barrier
  Cpus, Bsp             \* the processors, and the one that boots first

(* The words of the condition variable do not wrap within the signals of a  *)
(* behaviour.                                                               *)
ASSUME SyncAssumption ==
  /\ IsFiniteSet(Thread) /\ Thread # {}
  /\ Nobody \notin Thread
  /\ Thread = Consumer \cup Producer /\ Consumer \cap Producer = {}
  /\ MaxItems \in Nat /\ CondWord \in Nat /\ MaxItems < CondWord
  /\ MaxRounds \in Nat /\ BarrierWord \in Nat \ {0, 1}
  /\ IsFiniteSet(Cpus) /\ Bsp \in Cpus

VARIABLES kind, pc, asleep, s1, s2, s3, s4, s5, s6, s7, s8, s9, s10

vars == <<kind, pc, asleep, s1, s2, s3, s4, s5, s6, s7, s8, s9, s10>>

Mutex == INSTANCE FutexMutex WITH word <- s1

Once == INSTANCE Once WITH status <- s1, data <- s2

(* The producers signal with the mutex held.                                *)
Cond == INSTANCE CondClients WITH Word <- CondWord, SignalLocked <- TRUE,
          cur <- s1, prev <- s2, owner <- s3, loaded <- s4, items <- s5, added <- s6

Barrier == INSTANCE Barrier WITH Word <- BarrierWord,
             cur <- s1, prev <- s2, owner <- s3, loaded <- s4, count <- s5, gen_id <- s6,
             my_gen <- s7, entered <- s8, left <- s9, serial <- s10

(* Two threads are created; where each of them is, is in pc.                *)
Pthread == INSTANCE Pthread WITH Child <- Consumer, child <- pc,
             creator <- s1, tid_mutex <- s2, sync_mutex <- s3, detached <- s4, state <- s5,
             value <- s6, joiner <- s7, stack <- s8, table <- s9

(* Two readers share the characters; both queues hold two.                  *)
Term == INSTANCE Terminal WITH Reader <- Consumer, Decode <- <<"a", "nl", "none">>, NoChar <- "none", Newline <- "nl",
          ScanSize <- 2, ByteSize <- 2, BufLen <- 2, MaxKeys <- 3,
          scancodes <- s1, bytes <- s2, parser <- s3, write <- s4, typed <- s5, popped <- s6, keys <- s7

Start == INSTANCE Boot WITH Id <- [c \in Cpus |-> c],
           cpus <- s1, cpus_locked <- s2, loaded <- s3, lapic_mode <- s4, timer <- s5, flags <- s6, scheduled <- s7

Unused7 == s7 = 0 /\ s8 = 0 /\ s9 = 0 /\ s10 = 0
Unused3 == s3 = 0 /\ s4 = 0 /\ s5 = 0 /\ s6 = 0 /\ Unused7

Init ==
  \/ kind = "mutex" /\ Mutex!Init /\ s2 = 0 /\ Unused3
  \/ kind = "once" /\ Once!Init /\ Unused3
  \/ kind = "cond" /\ Cond!Init /\ Unused7
  \/ kind = "barrier" /\ Barrier!Init
  \/ kind = "pthread" /\ Pthread!Init /\ s10 = 0
  \/ kind = "terminal" /\ Term!Init /\ asleep = {} /\ s8 = 0 /\ s9 = 0 /\ s10 = 0
  \/ kind = "boot" /\ Start!Init /\ asleep = {} /\ s8 = 0 /\ s9 = 0 /\ s10 = 0

Next ==
  /\ \/ kind = "mutex" /\ Mutex!Next /\ UNCHANGED <<s2, s3, s4, s5, s6, s7, s8, s9, s10>>
     \/ kind = "once" /\ Once!Next /\ UNCHANGED <<s3, s4, s5, s6, s7, s8, s9, s10>>
     \/ kind = "cond" /\ Cond!Next /\ UNCHANGED <<s7, s8, s9, s10>>
     \/ kind = "barrier" /\ Barrier!Next
     \/ kind = "pthread" /\ Pthread!Next /\ UNCHANGED s10
     \/ kind = "terminal" /\ Term!Next /\ UNCHANGED <<asleep, s8, s9, s10>>
     \/ kind = "boot" /\ Start!Next /\ UNCHANGED <<asleep, s8, s9, s10>>
  /\ UNCHANGED kind

Spec == Init /\ [][Next]_vars

LibcFairness ==
  \A t \in Thread :
    /\ WF_(Mutex!vars)(kind = "mutex" /\ Mutex!Step(t))
    /\ WF_(Once!vars)(kind = "once" /\ Once!Step(t))
    /\ SF_(Cond!vars)(kind = "cond" /\ t \in Consumer /\ Cond!Consume(t))
    /\ SF_(Cond!vars)(kind = "cond" /\ t \in Producer /\ Cond!Produce(t))
    /\ SF_(Barrier!vars)(kind = "barrier" /\ Barrier!Step(t))
    /\ WF_(Pthread!vars)(kind = "pthread" /\ t \in Consumer /\ Pthread!CreatorStep(t))
    /\ WF_(Pthread!vars)(kind = "pthread" /\ t \in Consumer /\ Pthread!ThreadStep(t))
    /\ WF_(Pthread!vars)(kind = "pthread" /\ t \in Consumer /\ Pthread!JoinerStep(t))

(* A thread inside a library function is scheduled again and again, and the *)
(* program leaves its critical sections.  Around a condition variable the   *)
(* threads also contend for a mutex: one that finds it free again and again *)
(* gets it some day.  The parser thread of the terminal and its readers are *)
(* scheduled; a processor that is not waiting for a flag or lock boots on.  *)
Fairness ==
  /\ WF_(Term!vars)(kind = "terminal" /\ (Term!parse \/ Term!push_char))
  /\ \A r \in Consumer : WF_(Term!vars)(kind = "terminal" /\ Term!Reads(r))
  /\ WF_(Start!vars)(kind = "boot" /\ Start!bsp_boot)
  /\ \A c \in Cpus \ {Bsp} : WF_(Start!vars)(kind = "boot" /\ Start!ap_entry(c))
  /\ LibcFairness

FairSpec == Spec /\ Fairness

-----------------------------------------------------------------------------
(* Properties                                                               *)

(* FutexMutex: there are never two guards of one mutex at a time, and       *)
(* nobody sleeps on a mutex that is free, or whose holder does not know of  *)
(* the sleeper, unless a wake-up is on its way.                             *)
MutexSound == kind = "mutex" => Mutex!TypeOK /\ Mutex!MutualExclusion /\ Mutex!NoLostWakeup

(* Once: of all the callers that race, one runs the constructor, once, and  *)
(* call_once returns to nobody before the data is there.                    *)
OnceSound == kind = "once" => Once!TypeOK /\ Once!ConstructedOnce /\ Once!ReturnsInitialized

(* Cond: a signal made with the mutex held reaches a consumer that gave     *)
(* the mutex up before, wherever it is on its way to sleep.                 *)
CondSignals == kind = "cond" => Cond!TypeOK /\ Cond!NoLostSignal

(* Barrier: wait returns from a round only when all threads have entered    *)
(* it, although the counter of generations wraps around, and exactly one    *)
(* thread of a round is told it is the leader.                              *)
BarrierSound == kind = "barrier" => Barrier!TypeOK /\ Barrier!NobodyPassesAlone /\ Barrier!OneSerialThread

(* Pthread: the frame of create and the stack of a thread are there while   *)
(* they are used, join returns the value the thread has written, and        *)
(* OS_TID_TO_PTHREAD has a joinable thread until join has deallocated it.   *)
PthreadSound ==
  kind = "pthread" =>
    /\ Pthread!TypeOK /\ Pthread!FrameOutlivesUse /\ Pthread!StackLifetime
    /\ Pthread!JoinReadsValue /\ Pthread!JoinableInTable

(* A thread that waits in the library runs again: one asleep in manual_lock *)
(* or in call_once, a consumer of a condition variable for whom an item was *)
(* made, every thread of a barrier in all its rounds, and a join of a       *)
(* thread that ends.                                                        *)
WaitersReturn ==
  /\ \A t \in Thread : (kind = "mutex" /\ t \in asleep) ~> (t \notin asleep)
  /\ \A t \in Thread : <>(kind = "once" => pc[t] = "done")
  /\ <>[](kind = "cond" => Cond!AllTaken)
  /\ <>(kind = "barrier" => Barrier!AllLeft)
  /\ \A t \in Consumer : (kind = "pthread" /\ Pthread!Awaited(t)) ~> (kind = "pthread" /\ Pthread!Joined(t))

(* Terminal: what is typed reaches the readers once and in order.           *)
NothingLost == kind = "terminal" => Term!TypeOK /\ Term!NothingLost

(* Terminal: a reader does not wait while there are characters for it.      *)
ReadersServed ==
  \A r \in Consumer :
    (kind = "terminal" /\ pc[r] # "idle" /\ s2 # <<>>) ~> (kind = "terminal" /\ (pc[r] = "idle" \/ s2 = <<>>))

(* Boot: a processor that schedules has its CpuInfo, timer and thread.      *)
ReadyToSchedule == kind = "boot" => Start!TypeOK /\ Start!ReadyToSchedule

(* Boot: every processor comes to schedule threads.                         *)
AllStart == <>[](kind = "boot" => \A c \in Cpus : pc[c] = "run")
=============================================================================
