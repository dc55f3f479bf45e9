----------------------------- MODULE BlockCache -----------------------------
(***************************************************************************)
(* Block device nodes of /dev (kernel/src/fs/vfs/dev/block.rs and          *)
(* partition.rs) over the write-through sector cache of                    *)
(* kernel/src/fs/vfs/cache.rs and the disks of kernel/src/device/block.rs. *)
(*                                                                         *)
(* A system call runs with interrupts off, so on the one CPU modelled here *)
(* an operation is interrupted only by a crash, and what matters for a     *)
(* crash is the order of the stores to the disk: reading, and the part of  *)
(* write_at that works in memory, are one step each, and flush_cache is    *)
(* one step per sector.  usize arithmetic wraps, as in the release build   *)
(* the Makefile makes.                                                     *)
(***************************************************************************)
EXTENDS Integers, FiniteSetsExt

CONSTANTS
  SectorSize,   \* Cache::SIZE, 512
  NSectors,     \* sectors of the disk
  Byte,         \* values of a byte
  Base,         \* byte offsets of the nodes: 0, and each PartitionInode::offset
  Word          \* 2^64, the modulus of usize

Sector == 0..(NSectors - 1)
InSector == 0..(SectorSize - 1)
Bytes == NSectors * SectorSize

ASSUME ConstantsAssumption ==
  /\ SectorSize \in Nat \ {0}
  /\ NSectors \in Nat
  /\ Base \subseteq 0..Bytes
  /\ Word \in Nat
  /\ Bytes < Word /\ Word % SectorSize = 0

VARIABLES
  disk,      \* contents of the disk, by sector
  cached,    \* keys of CacheManager::caches
  cache,     \* the buffers of CacheManager::caches, by sector
  writing,   \* a write_at is in progress
  request,   \* its arguments
  flushing,  \* sectors the loop of flush_cache has still to write
  result     \* the buffer read_at filled, if it was the last call

vars == <<disk, cached, cache, writing, request, flushing, result>>

Block == [InSector -> Byte]

NoRequest == [offset |-> 0, len |-> 0, data |-> <<>>]

TypeOK ==
  /\ disk \in [Sector -> Block]
  /\ cached \subseteq Sector
  /\ cache \in [Sector -> Block]
  /\ flushing \subseteq cached
  /\ writing \in BOOLEAN
  /\ ~writing => flushing = {}

Init ==
  /\ disk \in [Sector -> Block]
  /\ cached = {}
  /\ cache = disk
  /\ writing = FALSE
  /\ request = NoRequest
  /\ flushing = {}
  /\ result = <<>>

-----------------------------------------------------------------------------
(* start_sector_id and end_sector_id of a transfer; the subtraction end - 1 *)
(* wraps when a transfer of no bytes starts at 0.                           *)
StartSector(offset) == offset \div SectorSize

(* Mutant: the last byte is taken to be the one at end.                     *)
EndSectorInclusive(offset, len) == ((offset + len) % Word) \div SectorSize

EndSector(offset, len) == ((offset + len - 1) % Word) \div SectorSize

(* The sectors of the temporary buffer: buffer_size / 512 of them, and      *)
(* buffer_size wraps too.                                                   *)
BufferSectors(offset, len) ==
  LET count == EndSector(offset, len) - StartSector(offset) + 1
      size  == (count * SectorSize) % Word
  IN  {s \in Sector : /\ StartSector(offset) <= s
                      /\ s < StartSector(offset) + (size \div SectorSize)}

(* read_from_cache: has_cache_on, or a read from the disk and add_cache.     *)
Fetched(s) == IF s \in cached THEN cache[s] ELSE disk[s]

(* tmp[(s - start_sector_id) * 512 + i]                                     *)
TmpIndex(offset, s, i) == (s - StartSector(offset)) * SectorSize + i

(* Mutant: the data is copied to the start of the first sector.             *)
ModifiedUnaligned(offset, len, data, s, i) ==
  LET k == TmpIndex(offset, s, i)
  IN  IF 0 <= k /\ k < len THEN data[k] ELSE Fetched(s)[i]

(* Byte I of sector S of tmp once write_at has copied buf into it.          *)
Modified(offset, len, data, s, i) ==
  LET k == TmpIndex(offset, s, i) - (offset % SectorSize)
  IN  IF 0 <= k /\ k < len THEN data[k] ELSE Fetched(s)[i]

read_at(offset, len) ==
  LET loaded == BufferSectors(offset, len)
      Tmp(k) == LET b == k + (offset % SectorSize)
                IN  Fetched(StartSector(offset) + (b \div SectorSize))[b % SectorSize]
  IN  /\ ~writing
      /\ cached' = cached \cup loaded
      /\ cache' = [s \in Sector |-> IF s \in loaded THEN Fetched(s) ELSE cache[s]]
      /\ result' = [k \in 0..(len - 1) |-> Tmp(k)]
      /\ UNCHANGED <<disk, writing, request, flushing>>

(* write_at up to flush_cache: read_from_cache, the copy, write_to_cache.   *)
write_at(offset, len, data) ==
  LET loaded == BufferSectors(offset, len)
  IN  /\ ~writing
      /\ cached' = cached \cup loaded
      /\ cache' = [s \in Sector |->
                     IF s \in loaded
                     THEN [i \in InSector |-> Modified(offset, len, data, s, i)]
                     ELSE cache[s]]
      /\ writing' = TRUE
      /\ request' = [offset |-> offset, len |-> len, data |-> data]
      /\ flushing' = cached'
      /\ result' = <<>>
      /\ UNCHANGED disk

(* One round of the loop of flush_cache; a BTreeMap is walked in order.     *)
flush_cache ==
  /\ flushing # {}
  /\ LET s == Min(flushing)
     IN  /\ disk' = [disk EXCEPT ![s] = cache[s]]
         /\ flushing' = flushing \ {s}
  /\ UNCHANGED <<cached, cache, writing, request, result>>

(* Mutant: write_at returns before the cache is flushed.                    *)
write_returns_early ==
  /\ writing
  /\ writing' = FALSE
  /\ request' = NoRequest
  /\ UNCHANGED <<disk, cached, cache, flushing, result>>

(* Mutant: write_at does not flush at all.                                  *)
write_returns_unflushed ==
  /\ writing
  /\ writing' = FALSE
  /\ request' = NoRequest
  /\ flushing' = {}
  /\ UNCHANGED <<disk, cached, cache, result>>

write_returns ==
  /\ writing
  /\ flushing = {}
  /\ writing' = FALSE
  /\ request' = NoRequest
  /\ UNCHANGED <<disk, cached, cache, flushing, result>>

(* The machine stops and is started again: only the disk survives.          *)
PowerLoss ==
  /\ cached' = {}
  /\ cache' = disk
  /\ writing' = FALSE
  /\ request' = NoRequest
  /\ flushing' = {}
  /\ result' = <<>>
  /\ UNCHANGED disk

(* PartitionInode adds its offset and passes the call on.                   *)
Node(base, offset) == base + offset

Next ==
  \/ \E base \in Base : \E offset \in 0..(Bytes - base) :
       \E len \in 0..(Bytes - Node(base, offset)) :
         \/ read_at(Node(base, offset), len)
         \/ \E data \in [0..(len - 1) -> Byte] : write_at(Node(base, offset), len, data)
  \/ flush_cache
  \/ write_returns
  \/ PowerLoss

Spec == Init /\ [][Next]_vars

-----------------------------------------------------------------------------
(* Properties                                                               *)

(* While nothing is being written every cached sector is what the disk     *)
(* holds: the cache of CacheManager is never stale and never dirty between *)
(* two calls, so dropping it in a crash loses nothing that was returned.   *)
CacheCoherent ==
  TypeOK /\ (~writing => \A s \in cached : cache[s] = disk[s])

(* The sectors of the write in progress that have not been flushed: of a   *)
(* whole cache that is being flushed, those the write changes.             *)
Unstored ==
  IF writing
  THEN {s \in flushing : \E i \in InSector :
          /\ request.offset <= s * SectorSize + i
          /\ s * SectorSize + i < request.offset + request.len}
  ELSE {}

Abstract == INSTANCE ByteStore WITH
  store <- disk, busy <- writing, pending <- request, todo <- Unstored, result <- result

(* The device node behaves as the byte array of ByteStore: transfers at    *)
(* any offset and length, including none, read and change exactly their    *)
(* own bytes, a write that returned is on the disk, and a crash tears a    *)
(* write only between sectors.                                             *)
ImplementsByteStore == Abstract!AbsSpec
=============================================================================
