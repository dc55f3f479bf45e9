------------------------------- MODULE Mouse --------------------------------
(***************************************************************************)
(* The PS/2 mouse driver (kernel/src/device/mouse.rs): the bytes of the    *)
(* device's packets, one interrupt each, put together again.  A byte may   *)
(* be lost between the device and the handler, and the driver knows where  *)
(* a packet begins only from the bit that is set in every first byte.      *)
(***************************************************************************)
EXTENDS Integers, Sequences

CONSTANTS
  FirstByte,  \* first bytes the device sends: bit 3 is set in them
  Motion,     \* the other bytes it sends
  Modulo      \* bytes of a packet: 3 for MouseType::Standard, else 4

VARIABLES
  index,      \* current_packet_index
  state,      \* current_state
  reported,   \* whether the last byte completed a packet for the driver
  packet,     \* the device: the bytes of its packet sent so far
  clean       \* history: bytes that came through since one was lost, or since
              \* one with bit 3 set that was not a first byte

vars == <<index, state, reported, packet, clean>>

Bit(byte, n) == (byte \div 2 ^ n) % 2 = 1
Always_one(byte) == Bit(byte, 3)
Sign_extended(byte, sign) == IF sign THEN byte - 256 ELSE byte

Byte == FirstByte \cup Motion

TypeOK ==
  /\ index \in 0 .. Modulo - 1
  /\ state.flags \in Byte \cup {0}
  /\ state.move_x \in -256 .. 255 /\ state.move_y \in -256 .. 255
  /\ reported \in BOOLEAN
  /\ packet \in Seq(Byte) /\ Len(packet) \in 0 .. Modulo
  /\ clean \in 0 .. 2 * Modulo

(* Mutant: any byte begins a packet.                                        *)
process_packet_trusting(byte) ==
  /\ state' = CASE index = 0 -> [state EXCEPT !.flags = byte]
                [] index = 1 /\ ~Bit(state.flags, 6) ->
                     [state EXCEPT !.move_x = Sign_extended(byte, Bit(state.flags, 4))]
                [] index = 2 /\ ~Bit(state.flags, 7) ->
                     [state EXCEPT !.move_y = Sign_extended(byte, Bit(state.flags, 5))]
                [] OTHER -> state
  /\ reported' = (index = Modulo - 1)
  /\ index' = (index + 1) % Modulo

(* Mutant: both distances have the sign of the first.                       *)
process_packet_one_sign(byte) ==
  IF index = 0 /\ ~Always_one(byte)
  THEN reported' = FALSE /\ UNCHANGED <<index, state>>
  ELSE /\ state' = CASE index = 0 -> [state EXCEPT !.flags = byte]
                     [] index = 1 /\ ~Bit(state.flags, 6) ->
                          [state EXCEPT !.move_x = Sign_extended(byte, Bit(state.flags, 4))]
                     [] index = 2 /\ ~Bit(state.flags, 7) ->
                          [state EXCEPT !.move_y = Sign_extended(byte, Bit(state.flags, 4))]
                     [] OTHER -> state
       /\ reported' = (index = Modulo - 1)
       /\ index' = (index + 1) % Modulo

(* The fourth byte, buttons and wheel, is a table of constants and left     *)
(* out of the state.                                                        *)
process_packet(byte) ==
  IF index = 0 /\ ~Always_one(byte)
  THEN reported' = FALSE /\ UNCHANGED <<index, state>>
  ELSE /\ state' = CASE index = 0 -> [state EXCEPT !.flags = byte]
                     [] index = 1 /\ ~Bit(state.flags, 6) ->
                          [state EXCEPT !.move_x = Sign_extended(byte, Bit(state.flags, 4))]
                     [] index = 2 /\ ~Bit(state.flags, 7) ->
                          [state EXCEPT !.move_y = Sign_extended(byte, Bit(state.flags, 5))]
                     [] OTHER -> state
       /\ reported' = (index = Modulo - 1)
       /\ index' = (index + 1) % Modulo

-----------------------------------------------------------------------------
(* The device sends the next byte of its packet.                            *)
Sent == IF Len(packet) = Modulo THEN <<>> ELSE packet

Next_bytes == IF Sent = <<>> THEN FirstByte ELSE Motion

mouse_interrupt(byte) ==
  /\ packet' = Append(Sent, byte)
  /\ process_packet(byte)
  /\ clean' = IF Sent # <<>> /\ Always_one(byte) THEN 0
              ELSE IF clean < 2 * Modulo THEN clean + 1 ELSE clean

lost(byte) ==
  /\ packet' = Append(Sent, byte)
  /\ clean' = 0 /\ reported' = FALSE
  /\ UNCHANGED <<index, state>>

Init ==
  /\ index = 0 /\ state = [flags |-> 0, move_x |-> 0, move_y |-> 0]
  /\ reported = FALSE /\ packet = <<>> /\ clean = 0

Next == \E byte \in Next_bytes : mouse_interrupt(byte) \/ lost(byte)

Spec == Init /\ [][Next]_vars

-----------------------------------------------------------------------------
(* The driver finds the beginning of a packet again after a lost byte: once *)
(* a whole packet came through in which only the first byte looks like a    *)
(* first byte, driver and device agree on where they are.                   *)
Resynchronises ==
  clean >= 2 * Modulo - 1 => index = Len(packet) % Modulo

(* What is then reported is what the device sent, as a signed 9-bit         *)
(* distance; a distance that overflowed is the previous one.                *)
ReportExact ==
  clean = 2 * Modulo /\ reported =>
    /\ Bit(packet[1], 6) \/ state.move_x = Sign_extended(packet[2], Bit(packet[1], 4))
    /\ Bit(packet[1], 7) \/ state.move_y = Sign_extended(packet[3], Bit(packet[1], 5))
=============================================================================
