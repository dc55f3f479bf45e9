--------------------------------- MODULE Hpet ---------------------------------
(***************************************************************************)
(* Reading the 64-bit counter of the HPET in 32-bit halves while it runs   *)
(* (Hpet::elapsed_ticks, kernel/src/device/hpet.rs).  Half is 2^32 in the  *)
(* code.                                                                   *)
(***************************************************************************)
EXTENDS Naturals

CONSTANTS
  Half,         \* values of a 32-bit half
  MaxTicks,     \* the counter is followed up to here
  MaxStep       \* the most it advances between two reads

VARIABLES
  counter,      \* the main counter of the device
  pc,           \* which half is read next
  high1, low,   \* what has been read
  started,      \* the counter when elapsed_ticks was called
  returned      \* the value returned last

vars == <<counter, pc, high1, low, started, returned>>

TypeOK ==
  /\ {counter, started, returned} \subseteq 0..MaxTicks
  /\ {high1, low} \subseteq 0..MaxTicks
  /\ pc \in {"idle", "high1", "low", "high2"}

High == counter \div Half
Low == counter % Half

(* The device counts.                                                       *)
count ==
  /\ \E n \in 1..MaxStep : counter + n <= MaxTicks /\ counter' = counter + n
  /\ UNCHANGED <<pc, high1, low, started, returned>>

elapsed_ticks ==
  /\ pc = "idle" /\ pc' = "high1" /\ started' = counter
  /\ UNCHANGED <<counter, high1, low, returned>>

read_high1 ==
  /\ pc = "high1" /\ high1' = High /\ pc' = "low"
  /\ UNCHANGED <<counter, low, started, returned>>

read_low ==
  /\ pc = "low" /\ low' = Low /\ pc' = "high2"
  /\ UNCHANGED <<counter, high1, started, returned>>

(* Mutant: the high half is not compared.                                   *)
read_high2_once ==
  /\ pc = "high2"
  /\ returned' = high1 * Half + low /\ pc' = "idle"
  /\ UNCHANGED <<counter, high1, low, started>>

(* Equal halves return, others read again.                                  *)
read_high2 ==
  /\ pc = "high2"
  /\ IF high1 = High
     THEN returned' = high1 * Half + low /\ pc' = "idle"
     ELSE pc' = "high1" /\ UNCHANGED returned
  /\ UNCHANGED <<counter, high1, low, started>>

Init ==
  /\ counter \in 0..(Half - 1) /\ pc = "idle" /\ high1 = 0 /\ low = 0
  /\ started = counter /\ returned = counter

Next == count \/ elapsed_ticks \/ read_high1 \/ read_low \/ read_high2

Spec == Init /\ [][Next]_vars

-----------------------------------------------------------------------------
(* The value returned is one the counter had during the call: the two       *)
(* halves belong together although the counter may carry between reads.     *)
(* calibrate_timer subtracts two of them as unsigned numbers.               *)
TicksWithinCall == pc = "idle" => started <= returned /\ returned <= counter
=============================================================================
