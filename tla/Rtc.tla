---------------------------------- MODULE Rtc ----------------------------------
(***************************************************************************)
(* RtcDateTime::new (kernel/src/device/rtc.rs): what the registers of the  *)
(* real-time clock say, in binary or BCD, with 24 or 12 hours.  One field  *)
(* is looked at at a time; bytes are numbers below 256.  The device's own  *)
(* encoding is external.                                                   *)
(***************************************************************************)
EXTENDS Naturals

CONSTANT MaxYear    \* years after 2000 that are looked at

VARIABLES
  field,            \* which field
  value,            \* what the clock counts
  is_binary, is_24_hour,
  decoded           \* what RtcDateTime has, or Unread

vars == <<field, value, is_binary, is_24_hour, decoded>>

Unread == 256
Values == [second |-> 0..59, minute |-> 0..59, hour |-> 0..23, day |-> 1..31, month |-> 1..12,
           year |-> 0..MaxYear]

TypeOK ==
  /\ field \in DOMAIN Values /\ value \in Values[field]
  /\ {is_binary, is_24_hour} \subseteq BOOLEAN /\ decoded \in 0..256

-----------------------------------------------------------------------------
(* The register of the device.                                              *)
Coded(v) == IF is_binary THEN v ELSE (v \div 10) * 16 + (v % 10)
get_rtc_register ==
  IF field # "hour" \/ is_24_hour THEN Coded(value)
  ELSE Coded(IF value % 12 = 0 THEN 12 ELSE value % 12) + (IF value >= 12 THEN 128 ELSE 0)

(* Mutant: the top bit is taken for a digit.                                *)
rtc_bcd_to_bin_plain(bcd) == (bcd \div 16) * 10 + (bcd % 16)

(* The top bit, the afternoon of 12 hours, stays apart.                     *)
rtc_bcd_to_bin(bcd) ==
  LET masked == bcd % 128
  IN  (masked \div 16) * 10 + (masked % 16) + (bcd - masked)

new ==
  LET raw == get_rtc_register
      bin == IF is_binary THEN raw ELSE rtc_bcd_to_bin(raw)
  IN  /\ decoded = Unread
      /\ decoded' = IF field = "hour" /\ ~is_24_hour
                    THEN ((bin % 128) % 12) + 12 * (bin \div 128)
                    ELSE bin
      /\ UNCHANGED <<field, value, is_binary, is_24_hour>>

Init ==
  /\ field \in DOMAIN Values /\ value \in Values[field]
  /\ is_binary \in BOOLEAN /\ is_24_hour \in BOOLEAN /\ decoded = Unread

Next == new

Spec == Init /\ [][Next]_vars

-----------------------------------------------------------------------------
(* In all four formats of the clock the time read is the time it counts:    *)
(* midnight and noon of 12 hours, and the bit that a BCD hour shares with   *)
(* the afternoon, included.                                                 *)
DecodesTime == decoded # Unread => decoded = value
=============================================================================
