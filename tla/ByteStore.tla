------------------------------ MODULE ByteStore ------------------------------
(***************************************************************************)
(* What a block device node of /dev promises its callers: an array of      *)
(* bytes that is read and written at any offset and length.  A write       *)
(* reaches the medium one sector at a time and has reached it completely   *)
(* when it returns; a crash in the middle leaves each sector either as it  *)
(* was or as the write wants it, and every byte outside the write alone.   *)
(***************************************************************************)
EXTENDS Integers

CONSTANTS
  SectorSize,   \* bytes in a sector
  NSectors,     \* sectors of the device
  Byte          \* values of a byte

Sector == 0..(NSectors - 1)
InSector == 0..(SectorSize - 1)
Bytes == NSectors * SectorSize

(* A write request: LEN bytes DATA[0], DATA[1], ... at OFFSET.              *)
Request(offset, len, data) == [offset |-> offset, len |-> len, data |-> data]
NoRequest == Request(0, 0, <<>>)

VARIABLES
  store,     \* contents of the medium, by sector
  busy,      \* a write is in progress
  pending,   \* its request
  todo,      \* sectors of the write in progress that have not been stored yet
  result     \* the bytes the last operation returned, if it was a read

absVars == <<store, busy, pending, todo, result>>

(* Byte I of sector S after the write R, when it was OLD before.            *)
Written(r, s, i, old) ==
  LET a == s * SectorSize + i
  IN  IF r.offset <= a /\ a < r.offset + r.len THEN r.data[a - r.offset] ELSE old

(* The sectors a write R changes.                                           *)
Touched(r) == {s \in Sector : \E i \in InSector :
                 /\ r.offset <= s * SectorSize + i
                 /\ s * SectorSize + i < r.offset + r.len}

Slice(offset, len) ==
  [k \in 0..(len - 1) |->
     store[(offset + k) \div SectorSize][(offset + k) % SectorSize]]

AbsInit ==
  /\ store \in [Sector -> [InSector -> Byte]]
  /\ busy = FALSE
  /\ pending = NoRequest
  /\ todo = {}
  /\ result = <<>>

Read(offset, len) ==
  /\ ~busy
  /\ result' = Slice(offset, len)
  /\ UNCHANGED <<store, busy, pending, todo>>

BeginWrite(r) ==
  /\ ~busy
  /\ busy' = TRUE
  /\ pending' = r
  /\ todo' = Touched(r)
  /\ result' = <<>>
  /\ UNCHANGED store

Persist(s) ==
  /\ busy
  /\ s \in todo
  /\ store' = [store EXCEPT ![s] = [i \in InSector |-> Written(pending, s, i, store[s][i])]]
  /\ todo' = todo \ {s}
  /\ UNCHANGED <<busy, pending, result>>

EndWrite ==
  /\ busy
  /\ todo = {}
  /\ busy' = FALSE
  /\ pending' = NoRequest
  /\ UNCHANGED <<store, todo, result>>

Crash ==
  /\ busy' = FALSE
  /\ pending' = NoRequest
  /\ todo' = {}
  /\ result' = <<>>
  /\ UNCHANGED store

AbsNext ==
  \/ \E offset \in 0..Bytes : \E len \in 0..(Bytes - offset) :
       \/ Read(offset, len)
       \/ \E data \in [0..(len - 1) -> Byte] : BeginWrite(Request(offset, len, data))
  \/ \E s \in Sector : Persist(s)
  \/ EndWrite
  \/ Crash

AbsSpec == AbsInit /\ [][AbsNext]_absVars
=============================================================================
