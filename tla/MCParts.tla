------------------------------- MODULE MCParts -------------------------------
(***************************************************************************)
(* The locks of relibc, the virtual CPU and the device drivers, which do   *)
(* not interact: kind says which of them a behaviour is about, and their   *)
(* variables are the slots s1, s2, ...; a slot that is not used is 0.      *)
(***************************************************************************)
EXTENDS Integers, FiniteSets, Sequences

CONSTANTS
  Thread,
  Nobody,         \* the word of a free pthread mutex
  MaxDepth,       \* how often a recursive mutex can be locked
  Units, Posts,   \* of a semaphore: its first value, and how often post is called
  Vectors, InitialCounts, DivideValues, Moments, Events,   \* of VCpu, in its order
  FirstBytes, MotionBytes, PacketSize,                     \* of Mouse
  HalfRange, TicksBound, TickStep,                         \* of Hpet
  LastYear                                                 \* of Rtc

ASSUME PartsAssumption ==
  /\ IsFiniteSet(Thread) /\ Nobody \notin Thread
  /\ MaxDepth \in Nat \ {0}
  /\ Units \in Nat /\ Posts \in Nat
  /\ Vectors \subseteq 1..255 /\ InitialCounts \subseteq Nat /\ DivideValues \subseteq 0..15
  /\ Moments \in Nat /\ Events \in Nat
  /\ FirstBytes \subseteq {b \in 0..255 : (b \div 8) % 2 = 1} /\ MotionBytes \subseteq 0..255
  /\ PacketSize \in {3, 4}
  /\ HalfRange \in Nat \ {0} /\ TickStep \in Nat /\ TicksBound \in Nat /\ HalfRange <= TicksBound + 1
  /\ LastYear \in 0..79

VARIABLES kind, s1, s2, s3, s4, s5, s6, s7, s8, s9

slots == <<s1, s2, s3, s4, s5, s6, s7, s8, s9>>

(* The mark of a writer is above what all threads could count as readers.   *)
Rlct == INSTANCE RlctMutex WITH STATE_UNLOCKED <- Nobody, MaxCount <- MaxDepth, pc <- s8, asleep <- s9,
          ty <- s1, robust <- s2, inner <- s3, recursive_count <- s4, seen <- s5, deadline <- s6, held <- s7

Rw == INSTANCE Rwlock WITH EXCLUSIVE <- Cardinality(Thread) + 1, pc <- s8, asleep <- s9,
        count <- s1, waiting <- s2, op <- s3, seen <- s4

Sem == INSTANCE Semaphore WITH Value <- Units, MaxPosts <- Posts, pc <- s8, asleep <- s9,
         count <- s1, value <- s2, posted <- s3, taken <- s4, result <- s5, acquired <- s6

Cpu == INSTANCE VCpu WITH Vector <- Vectors, Counts <- InitialCounts, Divides <- DivideValues, MaxNow <- Moments,
         MaxPending <- Events, now <- s1, timer <- s2, pending <- s3, window <- s4, flag <- s5, injected <- s6,
         halted <- s7, fired <- s8, divide_reg <- s9

PS2 == INSTANCE Mouse WITH FirstByte <- FirstBytes, Motion <- MotionBytes, Modulo <- PacketSize,
         index <- s1, state <- s2, reported <- s3, packet <- s4, clean <- s5

Timer == INSTANCE Hpet WITH Half <- HalfRange, MaxTicks <- TicksBound, MaxStep <- TickStep,
           counter <- s1, pc <- s2, high1 <- s3, low <- s4, started <- s5, returned <- s6

Clock == INSTANCE Rtc WITH MaxYear <- LastYear,
           field <- s1, value <- s2, is_binary <- s3, is_24_hour <- s4, decoded <- s5

Zero7 == s7 = 0 /\ s8 = 0 /\ s9 = 0
Zero6 == s6 = 0 /\ Zero7
Rest6 == <<s6, s7, s8, s9>>

PartsInit ==
  \/ kind = "mutex" /\ Rlct!Init
  \/ kind = "rwlock" /\ Rw!Init /\ s5 = 0 /\ s6 = 0 /\ s7 = 0
  \/ kind = "semaphore" /\ Sem!Init /\ s7 = 0
  \/ kind = "vcpu" /\ Cpu!Init
  \/ kind = "mouse" /\ PS2!Init /\ Zero6
  \/ kind = "hpet" /\ Timer!Init /\ Zero7
  \/ kind = "rtc" /\ Clock!Init /\ Zero6

PartsNext ==
  \/ kind = "mutex" /\ Rlct!Next
  \/ kind = "rwlock" /\ Rw!Next /\ UNCHANGED <<s5, s6, s7>>
  \/ kind = "semaphore" /\ Sem!Next /\ UNCHANGED s7
  \/ kind = "vcpu" /\ Cpu!Next
  \/ kind = "mouse" /\ PS2!Next /\ UNCHANGED Rest6
  \/ kind = "hpet" /\ Timer!Next /\ UNCHANGED <<s7, s8, s9>>
  \/ kind = "rtc" /\ Clock!Next /\ UNCHANGED Rest6

PartsSpec == PartsInit /\ [][PartsNext /\ UNCHANGED kind]_<<kind, slots>>

-----------------------------------------------------------------------------
(* Properties                                                               *)

(* RlctMutex: the word and the recursive count say who has the mutex and    *)
(* how often, and a thread that sleeps on the word of an owner is woken     *)
(* when that owner leaves.  Rwlock: readers and one writer exclude each     *)
(* other, unlock releases what its caller has, and nobody sleeps on a free  *)
(* lock.  Semaphore: a unit is in the count or was taken by one thread.     *)
LocksSound ==
  /\ kind = "mutex" => Rlct!TypeOK /\ Rlct!OwnerAndDepth /\ Rlct!NoLostWakeup
  /\ kind = "rwlock" => Rw!TypeOK /\ Rw!ReadersOrOneWriter /\ Rw!NoLostWakeup
  /\ kind = "semaphore" => Sem!TypeOK /\ Sem!NoUnitLost

(* VCpu: an event that can be injected at an entry is, or a window is open; *)
(* the timer fires once per interval, the counter is what is left of it,    *)
(* and the divide register reads as it was written.                         *)
VCpuSound ==
  kind = "vcpu" => Cpu!TypeOK /\ Cpu!NeverOverlooked /\ Cpu!CounterAgrees /\ Cpu!TicksExact /\ Cpu!DivideReads

(* Mouse: after a lost byte the driver is in step again within a packet,    *)
(* and reports packets as they were sent.  Hpet: the ticks returned lie     *)
(* within the time of the call.  Rtc: the field decoded is the one the      *)
(* clock counted.                                                           *)
DevicesExact ==
  /\ kind = "mouse" => PS2!TypeOK /\ PS2!Resynchronises /\ PS2!ReportExact
  /\ kind = "hpet" => Timer!TypeOK /\ Timer!TicksWithinCall
  /\ kind = "rtc" => Clock!TypeOK /\ Clock!DecodesTime
=============================================================================
