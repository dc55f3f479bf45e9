-------------------------- MODULE BlockCacheProofs --------------------------
(***************************************************************************)
(* BlockCache for every sector size, number of sectors, set of nodes and   *)
(* word: the cache is coherent between two calls, and a node of /dev       *)
(* implements the byte array of ByteStore.                                 *)
(***************************************************************************)
EXTENDS BlockCache, NaturalLemmas, TLAPS

(* What write_at has been asked to do lies within the disk.                *)
RequestOK(r) ==
  /\ r.offset \in Nat
  /\ r.len \in Nat
  /\ r.offset + r.len <= Bytes
  /\ r.data \in [0..(r.len - 1) -> Byte]

(* Sector S as the write R leaves it.                                      *)
Stored(r, s) == [i \in InSector |-> Abstract!Written(r, s, i, disk[s][i])]

(* In the middle of flush_cache a cached sector is either on the disk or   *)
(* still to be flushed, and what is to be flushed is what the write in     *)
(* progress makes of the sector of the disk.                               *)
CacheInv ==
  /\ TypeOK
  /\ \A s \in cached \ flushing : cache[s] = disk[s]
  /\ writing => RequestOK(request)
  /\ writing => \A s \in flushing : cache[s] = Stored(request, s)

-----------------------------------------------------------------------------
(* Sectors and bytes                                                       *)

(* Byte i of sector s has an address on the disk.                          *)
LEMMA AddressOK ==
  ASSUME NEW s \in Sector, NEW i \in InSector
  PROVE  /\ s \in Nat /\ i \in 0..(SectorSize - 1) /\ i \in Nat
         /\ s * SectorSize + i \in Nat
         /\ s * SectorSize + i < Bytes
<1>1. s \in Nat /\ i \in 0..(SectorSize - 1) /\ i \in Nat /\ SectorSize \in Nat \ {0}
      /\ NSectors \in Nat /\ s <= NSectors - 1
  BY ConstantsAssumption DEF Sector, InSector
<1>2. SectorSize * s <= SectorSize * (NSectors - 1)
  <2>1. NSectors - 1 \in Nat
    BY <1>1
  <2> QED BY <1>1, <2>1, TimesMonotonic
<1>3. SectorSize * NSectors - SectorSize * 1 = SectorSize * (NSectors - 1)
  <2>1. SectorSize \in Int /\ NSectors \in Int /\ 1 \in Int
    BY <1>1
  <2> QED BY <2>1, Distribute
<1>4. SectorSize * NSectors = NSectors * SectorSize /\ SectorSize * s = s * SectorSize
      /\ SectorSize * 1 = SectorSize
  BY <1>1
<1>5. s * SectorSize \in Nat /\ NSectors * SectorSize \in Nat
  BY <1>1
<1> DEFINE a == s * SectorSize
           b == NSectors * SectorSize
<1>6. a \in Nat /\ b \in Nat /\ a <= b - SectorSize
  BY <1>2, <1>3, <1>4, <1>5
<1> HIDE DEF a, b
<1>7. a + i \in Nat /\ a + i < b
  BY <1>6, <1>1
<1> QED BY <1>7, <1>1 DEF a, b, Bytes

(* The buffer of a transfer holds every sector that has one of its bytes.  *)
LEMMA BufferCovers ==
  ASSUME NEW offset \in Nat, NEW len \in Nat, offset + len <= Bytes,
         NEW s \in Sector, NEW i \in InSector,
         offset <= s * SectorSize + i, s * SectorSize + i < offset + len
  PROVE  s \in BufferSectors(offset, len)
<1> DEFINE d == SectorSize
           a == s * d + i
           last == offset + len - 1
           p == offset \div d
           q == last \div d
<1>1. d \in Nat \ {0} /\ NSectors \in Nat /\ Word \in Nat /\ Bytes < Word /\ Bytes = NSectors * d
  BY ConstantsAssumption DEF Bytes
<1>2. s \in Nat /\ i \in 0..(d - 1) /\ a \in Nat /\ a < Bytes
  BY AddressOK
<1>3. Bytes \in Nat
  BY <1>1
<1>4. last \in Nat /\ last < Bytes /\ offset <= a /\ a <= last
  <2> HIDE DEF d
  <2>1. offset <= a /\ a < offset + len
    BY DEF a, d
  <2> HIDE DEF a
  <2> QED BY <2>1, <1>2, <1>3
<1>5. last % Word = last
  <2> HIDE DEF last
  <2>1. last \in Int /\ Word \in Nat \ {0} /\ 0 \in Int /\ last \in 0..(Word - 1)
    BY <1>1, <1>3, <1>4
  <2>2. last = Word * 0 + last
    BY <2>1
  <2> QED BY <2>1, <2>2, DivisionUnique
<1>6. EndSector(offset, len) = q /\ StartSector(offset) = p
  BY <1>5 DEF EndSector, StartSector
<1>7. p \in Nat /\ d * p <= offset /\ q \in Nat /\ d * q <= last /\ last < d * q + d
  <2> HIDE DEF d, last
  <2> QED BY <1>1, <1>4, Quotient
<1>8. q < NSectors
  <2>1. d * NSectors = Bytes
    BY <1>1
  <2> HIDE DEF d, last
  <2> QED BY <1>1, <1>4, <2>1, QuotientBound
<1>9. a = d * s + i /\ d * s \in Int /\ d * p \in Int /\ d * q \in Int
  BY <1>1, <1>2, <1>7
<1>10. p <= s
  <2> SUFFICES ASSUME s < p PROVE FALSE
    BY <1>2, <1>7
  <2>1. p - s \in Int /\ p - s >= 1
    BY <1>2, <1>7
  <2>2. d * (p - s) >= d
    <3> HIDE DEF p, d
    <3> QED BY <2>1, <1>1, Multiples
  <2>3. d * p - d * s = d * (p - s)
    <3> HIDE DEF p, d
    <3> QED BY <1>1, <1>2, <1>7, Distribute
  <2> HIDE DEF p, d, a, last, q
  <2> QED BY <1>1, <1>2, <1>4, <1>7, <1>9, <2>2, <2>3
<1>11. s <= q
  <2> SUFFICES ASSUME q < s PROVE FALSE
    BY <1>2, <1>7
  <2>1. s - q \in Int /\ s - q >= 1
    BY <1>2, <1>7
  <2>2. d * (s - q) >= d
    <3> HIDE DEF q, d
    <3> QED BY <2>1, <1>1, Multiples
  <2>3. d * s - d * q = d * (s - q)
    <3> HIDE DEF q, d
    <3> QED BY <1>1, <1>2, <1>7, Distribute
  <2> HIDE DEF p, d, a, last, q
  <2> QED BY <1>1, <1>2, <1>4, <1>7, <1>9, <2>2, <2>3
<1> DEFINE count == q - p + 1
<1>12. count \in Nat /\ count <= NSectors /\ s < p + count
  <2> HIDE DEF q, p
  <2> QED BY <1>1, <1>2, <1>7, <1>8, <1>10, <1>11
<1>13. (count * d) % Word = count * d
  <2> HIDE DEF count, d
  <2>1. d * count <= d * NSectors
    BY <1>1, <1>12, TimesMonotonic
  <2>2. count * d = d * count /\ d * NSectors = NSectors * d /\ count * d \in Nat
    BY <1>1, <1>12
  <2> DEFINE size == count * d
  <2>3. size \in Int /\ 0 \in Int /\ Word \in Nat \ {0} /\ size \in 0..(Word - 1)
    BY <2>1, <2>2, <1>1, <1>3
  <2> HIDE DEF size
  <2>4. size = Word * 0 + size
    BY <2>3
  <2>5. size % Word = size
    BY <2>3, <2>4, DivisionUnique
  <2> QED BY <2>5 DEF size
<1>14. (count * d) \div d = count
  <2> HIDE DEF count, d
  <2>1. count * d = d * count + 0 /\ count * d \in Int /\ count \in Int /\ 0 \in 0..(d - 1)
    BY <1>1, <1>12
  <2> QED BY <2>1, <1>1, DivisionUnique
<1> QED
  <2>1. ((count * SectorSize) % Word) \div SectorSize = count
    BY <1>13, <1>14
  <2>2. count = EndSector(offset, len) - StartSector(offset) + 1
    BY <1>6
  <2> HIDE DEF count
  <2> QED BY <2>1, <2>2, <1>6, <1>10, <1>12 DEF BufferSectors

(* A byte of the buffer of read_at is the byte of the disk at its address. *)
LEMMA BufferByte ==
  ASSUME NEW offset \in Nat, NEW len \in Nat, offset + len <= Bytes, NEW k \in 0..(len - 1)
  PROVE  LET b == k + (offset % SectorSize)
             s == (offset + k) \div SectorSize
             i == (offset + k) % SectorSize
         IN  /\ StartSector(offset) + (b \div SectorSize) = s
             /\ b % SectorSize = i
             /\ s \in Sector /\ i \in InSector
             /\ offset + k = s * SectorSize + i
<1> DEFINE d == SectorSize
           p == offset \div d
           r == offset % d
           b == k + r
           c == b \div d
           e == b % d
<1>1. d \in Nat \ {0} /\ NSectors \in Nat /\ Bytes = NSectors * d /\ d * NSectors = Bytes
      /\ Bytes \in Nat
  BY ConstantsAssumption DEF Bytes
<1>2. p \in Nat /\ r \in 0..(d - 1) /\ offset = d * p + r
  <2> HIDE DEF d
  <2> QED BY ONLY <1>1, offset \in Nat, DivisionNat, Zenon
<1>3. b \in Nat
  <2> HIDE DEF r, d
  <2> QED BY <1>1, <1>2
<1>4. c \in Nat /\ e \in 0..(d - 1) /\ b = d * c + e
  <2> HIDE DEF d, b
  <2> QED BY ONLY <1>1, <1>3, DivisionNat, Zenon
<1>5. offset + k = d * (p + c) + e /\ p + c \in Nat /\ offset + k \in Nat /\ offset + k < Bytes
  <2>1. d * p + d * c = d * (p + c)
    <3> HIDE DEF p, c, d
    <3> QED BY <1>1, <1>2, <1>4
  <2>2. b = k + r
    OBVIOUS
  <2> DEFINE x == d * p
             y == d * c
             z == d * (p + c)
  <2>3. x \in Nat /\ y \in Nat /\ x + y = z /\ offset = x + r /\ b = y + e
    <3> HIDE DEF p, c, d, b, r, e
    <3> QED BY <2>1, <1>1, <1>2, <1>4
  <2> HIDE DEF x, y, z, p, c, d, b, r, e
  <2>4. offset + k = z + e
    BY <2>2, <2>3, <1>1, <1>2, <1>4
  <2> QED BY <2>4, <1>1, <1>2, <1>4 DEF z
<1>6. (offset + k) \div d = p + c /\ (offset + k) % d = e
  <2> DEFINE a == offset + k
  <2> HIDE DEF a, d, p, c, e
  <2>1. a \in Int /\ p + c \in Int /\ a = d * (p + c) + e
    BY <1>5 DEF a
  <2>2. a \div d = p + c /\ a % d = e
    BY <2>1, <1>1, <1>4, DivisionUnique
  <2> QED BY <2>2 DEF a
<1>7. p + c < NSectors
  <2> DEFINE a == offset + k
  <2> HIDE DEF a, d, p, c, e
  <2>1. a \in Nat /\ a < d * NSectors /\ a \div d = p + c
    BY <1>1, <1>5, <1>6 DEF a
  <2> QED BY <2>1, <1>1, QuotientBound
<1>8. d * (p + c) = (p + c) * d
  <2> HIDE DEF d, p, c
  <2> QED BY <1>1, <1>5
<1>9. p + c \in Sector /\ e \in InSector
  <2> HIDE DEF p, c, e
  <2> QED BY <1>1, <1>4, <1>5, <1>7 DEF Sector, InSector
<1>10. offset + k = (p + c) * d + e
  <2> HIDE DEF d, p, c, e
  <2> QED BY <1>5, <1>8
<1>11. StartSector(offset) = p
  BY DEF StartSector
<1> HIDE DEF p, c, e
<1>12. b \div SectorSize = c /\ b % SectorSize = e
  BY DEF c, e
<1>13. (offset + k) \div SectorSize = p + c /\ (offset + k) % SectorSize = e
  BY <1>6
<1>14. k + (offset % SectorSize) = b
  OBVIOUS
<1> QED BY <1>9, <1>10, <1>11, <1>12, <1>13, <1>14

(* The place of a byte in the buffer is its distance from the offset.      *)
LEMMA BufferPlace ==
  ASSUME NEW offset \in Nat, NEW s \in Sector, NEW i \in InSector
  PROVE  TmpIndex(offset, s, i) - (offset % SectorSize) = (s * SectorSize + i) - offset
<1> DEFINE d == SectorSize
           p == offset \div d
           r == offset % d
<1>1. d \in Nat \ {0} /\ s \in Nat /\ i \in Nat
  BY AddressOK, ConstantsAssumption
<1>2. p \in Nat /\ r \in 0..(d - 1) /\ offset = d * p + r
  <2> HIDE DEF d
  <2> QED BY ONLY <1>1, offset \in Nat, DivisionNat, Zenon
<1>3. (s - p) * d = d * (s - p) /\ s * d = d * s /\ d * s - d * p = d * (s - p)
  <2>1. (s - p) * d = d * (s - p) /\ s * d = d * s
    <3> HIDE DEF p, d
    <3> QED BY <1>1, <1>2
  <2>2. d * s - d * p = d * (s - p)
    <3> HIDE DEF p, d
    <3> QED BY <1>1, <1>2, Distribute
  <2> QED BY <2>1, <2>2
<1> DEFINE x == d * p
           y == d * s
<1>4. x \in Int /\ y \in Int /\ (s - p) * d = y - x /\ s * d = y /\ offset = x + r
  <2> HIDE DEF p, d, r
  <2> QED BY <1>1, <1>2, <1>3
<1>5. TmpIndex(offset, s, i) = (s - p) * d + i
  BY DEF TmpIndex, StartSector
<1> HIDE DEF x, y, p, r
<1>6. TmpIndex(offset, s, i) - r = (s * d + i) - offset
  BY <1>1, <1>2, <1>4, <1>5
<1> QED BY <1>6 DEF r

-----------------------------------------------------------------------------
(* What a write makes of a sector                                          *)

(* Between two calls read_from_cache returns what the disk holds.          *)
LEMMA FetchedDisk ==
  ASSUME CacheInv, ~writing, NEW s \in Sector
  PROVE  Fetched(s) = disk[s]
BY DEF CacheInv, TypeOK, Fetched

(* A byte of a sector after a write is a byte.                             *)
LEMMA WrittenByte ==
  ASSUME NEW r, RequestOK(r), NEW s \in Sector, NEW i \in InSector, NEW old \in Byte
  PROVE  Abstract!Written(r, s, i, old) \in Byte
<1> DEFINE a == s * SectorSize + i
<1>1. a \in Nat
  BY AddressOK
<1>2. ASSUME r.offset <= a, a < r.offset + r.len
      PROVE  r.data[a - r.offset] \in Byte
  <2> HIDE DEF a
  <2>1. a - r.offset \in 0..(r.len - 1)
    BY <1>1, <1>2 DEF RequestOK
  <2> QED BY <2>1 DEF RequestOK
<1> QED BY <1>2 DEF Abstract!Written

(* A write leaves the sectors that it does not touch as they are.          *)
LEMMA UntouchedStored ==
  ASSUME NEW r, NEW s \in Sector, s \notin Abstract!Touched(r), disk \in [Sector -> Block]
  PROVE  Stored(r, s) = disk[s]
<1>1. ASSUME NEW i \in InSector
      PROVE  Abstract!Written(r, s, i, disk[s][i]) = disk[s][i]
  <2>1. ~ (r.offset <= s * SectorSize + i /\ s * SectorSize + i < r.offset + r.len)
    BY DEF Abstract!Touched, Abstract!Sector, Abstract!InSector, Sector, InSector
  <2> QED BY <2>1 DEF Abstract!Written
<1>2. disk[s] \in Block
  OBVIOUS
<1> QED BY <1>1, <1>2 DEF Stored, Block

(* What write_at copies into the buffer is what the byte array asks for.   *)
LEMMA ModifiedWritten ==
  ASSUME CacheInv, ~writing, NEW r, RequestOK(r), NEW s \in Sector, NEW i \in InSector
  PROVE  Modified(r.offset, r.len, r.data, s, i) = Abstract!Written(r, s, i, disk[s][i])
<1> DEFINE a == s * SectorSize + i
           k == TmpIndex(r.offset, s, i) - (r.offset % SectorSize)
<1>1. a \in Nat /\ r.offset \in Nat /\ r.len \in Nat
  BY AddressOK DEF RequestOK
<1>2. k = a - r.offset
  BY <1>1, BufferPlace
<1>3. Fetched(s)[i] = disk[s][i]
  BY FetchedDisk
<1>4. Modified(r.offset, r.len, r.data, s, i)
        = IF 0 <= k /\ k < r.len THEN r.data[k] ELSE disk[s][i]
  BY <1>3 DEF Modified
<1>5. Abstract!Written(r, s, i, disk[s][i])
        = IF r.offset <= a /\ a < r.offset + r.len THEN r.data[a - r.offset] ELSE disk[s][i]
  BY DEF Abstract!Written
<1>6. (0 <= k /\ k < r.len) <=> (r.offset <= a /\ a < r.offset + r.len)
  <2> HIDE DEF a, k
  <2> QED BY <1>1, <1>2
<1> HIDE DEF a, k
<1> QED BY <1>2, <1>4, <1>5, <1>6

(* The sectors a write touches are in its buffer.                          *)
LEMMA TouchedLoaded ==
  ASSUME NEW r, RequestOK(r), NEW s \in Abstract!Touched(r)
  PROVE  s \in Sector /\ s \in BufferSectors(r.offset, r.len)
<1>1. s \in Sector
  BY DEF Abstract!Touched, Abstract!Sector, Sector
<1>2. PICK i \in InSector : r.offset <= s * SectorSize + i /\ s * SectorSize + i < r.offset + r.len
  BY DEF Abstract!Touched, Abstract!InSector, InSector
<1>3. r.offset \in Nat /\ r.len \in Nat /\ r.offset + r.len <= Bytes
  BY DEF RequestOK
<1> QED BY <1>1, <1>2, <1>3, BufferCovers

(* The first sector of a flush.                                            *)
LEMMA MinIn ==
  ASSUME NEW S \in SUBSET Sector, S # {}
  PROVE  Min(S) \in S
<1>1. S \in SUBSET Nat
  BY ConstantsAssumption DEF Sector
<1>2. \E i \in S : \A j \in S : i <= j
  BY <1>1, LeastNatural
<1> QED BY <1>2 DEF Min

(* The arguments of a call on a node.                                      *)
LEMMA NodeArguments ==
  ASSUME NEW base \in Base, NEW offset \in 0..(Bytes - base),
         NEW len \in 0..(Bytes - Node(base, offset))
  PROVE  /\ Node(base, offset) \in Nat /\ len \in Nat
         /\ Node(base, offset) + len <= Bytes
         /\ Node(base, offset) \in 0..Bytes
<1>1. base \in Nat /\ Bytes \in Nat
  BY ConstantsAssumption DEF Bytes
<1> QED BY <1>1 DEF Node

-----------------------------------------------------------------------------
(* The inductive invariant                                                 *)

(* A new cache is empty, and agrees with any disk.                         *)
LEMMA CacheInvInit == Init => CacheInv
BY DEF Init, CacheInv, TypeOK

(* read_at only adds copies of sectors of the disk to the cache.           *)
LEMMA CacheInvRead ==
  ASSUME CacheInv, NEW offset, NEW len, read_at(offset, len)
  PROVE  CacheInv'
<1> DEFINE loaded == BufferSectors(offset, len)
<1>1. loaded \subseteq Sector
  BY DEF BufferSectors
<1> HIDE DEF loaded
<1>2. /\ ~writing /\ flushing = {} /\ flushing' = {} /\ ~writing' /\ disk' = disk
      /\ cached' = cached \cup loaded
      /\ cache' = [s \in Sector |-> IF s \in loaded THEN Fetched(s) ELSE cache[s]]
      /\ disk \in [Sector -> Block] /\ cached \subseteq Sector /\ cache \in [Sector -> Block]
  BY DEF read_at, CacheInv, TypeOK, loaded
<1>3. \A s \in Sector : Fetched(s) = disk[s]
  BY <1>2, FetchedDisk
<1>4. \A s \in cached : cache[s] = disk[s]
  BY <1>2 DEF CacheInv
<1>5. cache' \in [Sector -> Block]
  BY <1>2, <1>3
<1>6. TypeOK'
  <2>1. writing' \in BOOLEAN
    BY DEF read_at, CacheInv, TypeOK
  <2> QED BY <1>1, <1>2, <1>5, <2>1 DEF TypeOK, Block
<1>7. \A s \in cached' : cache'[s] = disk'[s]
  BY <1>1, <1>2, <1>3, <1>4
<1> QED BY <1>2, <1>6, <1>7 DEF CacheInv

(* write_at leaves in the cache what the write makes of the disk.          *)
LEMMA CacheInvWrite ==
  ASSUME CacheInv, NEW offset, NEW len, NEW data, write_at(offset, len, data),
         RequestOK([offset |-> offset, len |-> len, data |-> data])
  PROVE  CacheInv'
<1> DEFINE r == [offset |-> offset, len |-> len, data |-> data]
           loaded == BufferSectors(offset, len)
<1>1. loaded \subseteq Sector
  BY DEF BufferSectors
<1>2. /\ ~writing /\ flushing = {} /\ writing' = TRUE /\ flushing' = cached' /\ disk' = disk
      /\ request' = r
      /\ cached' = cached \cup loaded
      /\ cache' = [s \in Sector |-> IF s \in loaded
                                    THEN [i \in InSector |-> Modified(offset, len, data, s, i)]
                                    ELSE cache[s]]
      /\ disk \in [Sector -> Block] /\ cached \subseteq Sector /\ cache \in [Sector -> Block]
  BY DEF write_at, CacheInv, TypeOK
<1>3. RequestOK(r) /\ r.offset = offset /\ r.len = len /\ r.data = data
  OBVIOUS
<1>4. Abstract!Touched(r) \subseteq loaded
  BY <1>3, TouchedLoaded
<1>5. \A s \in Sector : \A i \in InSector :
        Modified(offset, len, data, s, i) = Abstract!Written(r, s, i, disk[s][i])
  <2> HIDE DEF r
  <2> SUFFICES ASSUME NEW s \in Sector, NEW i \in InSector
               PROVE  Modified(r.offset, r.len, r.data, s, i) = Abstract!Written(r, s, i, disk[s][i])
    BY <1>3
  <2> QED BY <1>2, <1>3, ModifiedWritten
<1> HIDE DEF r, loaded
<1>6. \A s \in loaded : cache'[s] = Stored(r, s)
  BY <1>1, <1>2, <1>5 DEF Stored
<1>7. \A s \in cached : s \notin loaded => cache'[s] = Stored(r, s)
  <2> SUFFICES ASSUME NEW s \in cached, s \notin loaded
               PROVE  cache'[s] = Stored(r, s)
    OBVIOUS
  <2>1. cache'[s] = disk[s]
    BY <1>2 DEF CacheInv
  <2>2. Stored(r, s) = disk[s]
    BY <1>2, <1>4, UntouchedStored
  <2> QED BY <2>1, <2>2
<1>8. \A s \in flushing' : cache'[s] = Stored(r, s)
  BY <1>2, <1>6, <1>7
<1>9. \A s \in Sector : Stored(r, s) \in Block
  <2> SUFFICES ASSUME NEW s \in Sector, NEW i \in InSector
               PROVE  Abstract!Written(r, s, i, disk[s][i]) \in Byte
    BY DEF Stored, Block
  <2>1. disk[s][i] \in Byte
    BY <1>2 DEF Block
  <2> QED BY <2>1, <1>3, WrittenByte
<1>10. cache' \in [Sector -> Block]
  <2>1. \A s \in Sector : cache'[s] \in Block
    BY <1>2, <1>6, <1>9
  <2>2. cache' = [s \in Sector |-> cache'[s]]
    BY <1>2
  <2> QED BY <2>1, <2>2
<1>11. TypeOK'
  BY <1>1, <1>2, <1>10 DEF TypeOK, Block
<1>12. \A s \in flushing' : cache'[s] = Stored(r, s)'
  BY <1>2, <1>8 DEF Stored, r
<1> QED BY <1>2, <1>3, <1>11, <1>12 DEF CacheInv, RequestOK

(* flush_cache makes a sector of the disk what the write makes of it; a    *)
(* second flush of the same sector would change nothing.                   *)
LEMMA CacheInvFlush ==
  ASSUME CacheInv, flush_cache
  PROVE  CacheInv'
<1> DEFINE s == Min(flushing)
<1>1. /\ writing /\ RequestOK(request)
      /\ flushing # {} /\ flushing \subseteq cached /\ cached \subseteq Sector
      /\ disk \in [Sector -> Block] /\ cache \in [Sector -> Block]
      /\ \A x \in cached \ flushing : cache[x] = disk[x]
      /\ \A x \in flushing : cache[x] = Stored(request, x)
  BY DEF CacheInv, TypeOK, flush_cache
<1>2. s \in flushing /\ s \in Sector
  BY <1>1, MinIn
<1>3. /\ disk' = [disk EXCEPT ![s] = cache[s]] /\ flushing' = flushing \ {s}
      /\ cached' = cached /\ cache' = cache /\ writing' = writing /\ request' = request
  BY DEF flush_cache
<1> HIDE DEF s
<1>4. TypeOK'
  <2>1. disk' \in [Sector -> Block]
    BY <1>1, <1>2, <1>3
  <2>2. writing' \in BOOLEAN
    BY <1>3 DEF CacheInv, TypeOK
  <2>3. Block' = Block
    BY DEF Block
  <2> QED BY <1>1, <1>2, <1>3, <2>1, <2>2, <2>3 DEF TypeOK
<1>5. \A x \in Sector : disk'[x] = IF x = s THEN cache[s] ELSE disk[x]
  BY <1>1, <1>2, <1>3
<1>6. \A x \in cached' \ flushing' : cache'[x] = disk'[x]
  BY <1>1, <1>3, <1>5
<1>7. \A x \in flushing' : cache'[x] = Stored(request, x)'
  BY <1>1, <1>3, <1>5 DEF Stored
<1>8. RequestOK(request)'
  BY <1>1, <1>3 DEF RequestOK
<1> QED BY <1>4, <1>6, <1>7, <1>8 DEF CacheInv

(* Every step preserves the invariant.                                     *)
LEMMA CacheInvNext ==
  ASSUME CacheInv, [Next]_vars
  PROVE  CacheInv'
<1>1. ASSUME NEW base \in Base, NEW offset \in 0..(Bytes - base),
             NEW len \in 0..(Bytes - Node(base, offset)), read_at(Node(base, offset), len)
      PROVE  CacheInv'
  BY <1>1, CacheInvRead
<1>2. ASSUME NEW base \in Base, NEW offset \in 0..(Bytes - base),
             NEW len \in 0..(Bytes - Node(base, offset)), NEW data \in [0..(len - 1) -> Byte],
             write_at(Node(base, offset), len, data)
      PROVE  CacheInv'
  <2>1. RequestOK([offset |-> Node(base, offset), len |-> len, data |-> data])
    BY NodeArguments DEF RequestOK
  <2> QED BY <1>2, <2>1, CacheInvWrite
<1>3. ASSUME flush_cache PROVE CacheInv'
  BY <1>3, CacheInvFlush
<1>4. ASSUME write_returns PROVE CacheInv'
  BY <1>4 DEF write_returns, CacheInv, TypeOK, Block
<1>5. ASSUME PowerLoss PROVE CacheInv'
  BY <1>5 DEF PowerLoss, CacheInv, TypeOK, Block
<1>6. ASSUME UNCHANGED vars PROVE CacheInv'
  BY <1>6 DEF vars, CacheInv, TypeOK, Block, RequestOK, Stored
<1> QED BY <1>1, <1>2, <1>3, <1>4, <1>5, <1>6 DEF Next

(* The state of the cache between any two stores of flush_cache.           *)
THEOREM CacheInvariant == Spec => []CacheInv
<1>1. CacheInv /\ [Next]_vars => CacheInv'
  BY CacheInvNext
<1> QED BY <1>1, CacheInvInit, PTL DEF Spec

(* No cached sector is stale or dirty while no write_at is in progress,    *)
(* whatever was read, written and lost to a crash before.                  *)
THEOREM CacheIsCoherent == Spec => []CacheCoherent
<1>1. CacheInv => CacheCoherent
  BY DEF CacheInv, CacheCoherent, TypeOK
<1> QED BY <1>1, CacheInvariant, PTL

-----------------------------------------------------------------------------
(* A node of /dev implements the byte array                                *)

(* The sectors of the write in progress that have not been stored.         *)
LEMMA UnstoredTouched ==
  ASSUME TypeOK, writing
  PROVE  Unstored = {s \in flushing : s \in Abstract!Touched(request)}
BY DEF TypeOK, Unstored, Abstract!Touched, Abstract!Sector, Abstract!InSector, Sector, InSector

(* At boot the disk is any array of bytes.                                 *)
LEMMA RefinesInit == Init => Abstract!AbsInit
BY DEF Init, Abstract!AbsInit, Unstored, NoRequest, Abstract!NoRequest, Abstract!Request,
       Block, Sector, InSector, Abstract!Sector, Abstract!InSector

(* read_at returns the bytes of the array.                                 *)
LEMMA RefinesRead ==
  ASSUME CacheInv, NEW offset \in Nat, NEW len \in Nat, offset + len <= Bytes, read_at(offset, len)
  PROVE  Abstract!Read(offset, len)
<1>1. ~writing /\ disk' = disk /\ writing' = writing /\ request' = request /\ flushing' = flushing
  BY DEF read_at
<1>2. ASSUME NEW k \in 0..(len - 1)
      PROVE  Fetched(StartSector(offset) + ((k + (offset % SectorSize)) \div SectorSize))
                    [(k + (offset % SectorSize)) % SectorSize]
               = disk[(offset + k) \div SectorSize][(offset + k) % SectorSize]
  BY <1>1, BufferByte, FetchedDisk
<1>3. result' = [k \in 0..(len - 1) |-> disk[(offset + k) \div SectorSize][(offset + k) % SectorSize]]
  BY <1>2 DEF read_at
<1>4. Unstored' = Unstored
  BY <1>1 DEF Unstored
<1> QED BY <1>1, <1>3, <1>4 DEF Abstract!Read, Abstract!Slice

(* What write_at does in memory begins the write of the array.             *)
LEMMA RefinesWrite ==
  ASSUME CacheInv, CacheInv', NEW offset, NEW len, NEW data, write_at(offset, len, data),
         RequestOK([offset |-> offset, len |-> len, data |-> data])
  PROVE  Abstract!BeginWrite(Abstract!Request(offset, len, data))
<1> DEFINE r == [offset |-> offset, len |-> len, data |-> data]
<1>1. Abstract!Request(offset, len, data) = r
  BY DEF Abstract!Request
<1>2. RequestOK(r) /\ r.offset = offset /\ r.len = len
  OBVIOUS
<1>3. /\ ~writing /\ writing' = TRUE /\ request' = r /\ flushing' = cached' /\ disk' = disk /\ result' = <<>>
      /\ cached' = cached \cup BufferSectors(offset, len)
  BY DEF write_at
<1> HIDE DEF r
<1>4. Abstract!Touched(r) \subseteq flushing'
  BY <1>2, <1>3, TouchedLoaded
<1>5. Unstored' = {s \in flushing' : s \in Abstract!Touched(r)}
  BY <1>3 DEF CacheInv, TypeOK, Unstored, Abstract!Touched, Abstract!Sector, Abstract!InSector,
              Sector, InSector
<1>6. Unstored' = Abstract!Touched(r)
  BY <1>4, <1>5
<1> QED BY <1>1, <1>3, <1>6 DEF Abstract!BeginWrite

(* A round of flush_cache stores a sector of the write, or changes nothing *)
(* the array can show.                                                     *)
LEMMA RefinesFlush ==
  ASSUME CacheInv, flush_cache
  PROVE  (\E s \in Sector : Abstract!Persist(s)) \/ UNCHANGED Abstract!absVars
<1> DEFINE s == Min(flushing)
<1>1. /\ writing /\ TypeOK /\ RequestOK(request)
      /\ flushing # {} /\ flushing \subseteq Sector
      /\ disk \in [Sector -> Block]
      /\ \A x \in flushing : cache[x] = Stored(request, x)
  BY DEF CacheInv, TypeOK, flush_cache
<1>2. s \in flushing /\ s \in Sector
  BY <1>1, MinIn
<1>3. /\ disk' = [disk EXCEPT ![s] = cache[s]] /\ flushing' = flushing \ {s}
      /\ writing' = writing /\ request' = request /\ result' = result
  BY DEF flush_cache
<1> HIDE DEF s
<1>4. disk' = [disk EXCEPT ![s] = Stored(request, s)]
  BY <1>1, <1>2, <1>3
<1>5. Unstored = {x \in flushing : x \in Abstract!Touched(request)}
  BY <1>1, UnstoredTouched
<1>6. Unstored' = {x \in flushing' : x \in Abstract!Touched(request)}
  BY <1>1, <1>3 DEF Unstored, Abstract!Touched, Abstract!Sector, Abstract!InSector, Sector, InSector
<1>7. CASE s \in Abstract!Touched(request)
  <2>1. s \in Unstored /\ Unstored' = Unstored \ {s}
    BY <1>2, <1>3, <1>5, <1>6, <1>7
  <2>2. disk' = [disk EXCEPT ![s] = [i \in Abstract!InSector |->
                                       Abstract!Written(request, s, i, disk[s][i])]]
    BY <1>4 DEF Stored, InSector, Abstract!InSector
  <2>3. Abstract!Persist(s)
    BY <1>1, <1>3, <2>1, <2>2 DEF Abstract!Persist
  <2> QED BY <1>2, <2>3
<1>8. CASE s \notin Abstract!Touched(request)
  <2>1. Unstored' = Unstored
    BY <1>2, <1>3, <1>5, <1>6, <1>8
  <2>2. disk' = disk
    <3>1. Stored(request, s) = disk[s]
      BY <1>1, <1>2, <1>8, UntouchedStored
    <3> QED BY <1>1, <1>2, <1>4, <3>1
  <2> QED BY <1>3, <2>1, <2>2 DEF Abstract!absVars
<1> QED BY <1>7, <1>8

(* Every step is a step of the array or leaves it as it is.                *)
LEMMA RefinesNext ==
  ASSUME CacheInv, CacheInv', [Next]_vars
  PROVE  [Abstract!AbsNext]_(Abstract!absVars)
<1>1. ASSUME NEW base \in Base, NEW offset \in 0..(Bytes - base),
             NEW len \in 0..(Bytes - Node(base, offset)), read_at(Node(base, offset), len)
      PROVE  Abstract!AbsNext
  <2> DEFINE o == Node(base, offset)
  <2>1. o \in Nat /\ len \in Nat /\ o + len <= Bytes /\ o \in 0..Bytes
    BY NodeArguments
  <2> HIDE DEF o
  <2>2. Abstract!Read(o, len)
    BY <1>1, <2>1, RefinesRead DEF o
  <2>3. o \in 0..Abstract!Bytes /\ len \in 0..(Abstract!Bytes - o)
    <3>1. Abstract!Bytes = Bytes /\ Bytes \in Nat
      BY ConstantsAssumption DEF Abstract!Bytes, Bytes
    <3> QED BY <2>1, <3>1
  <2> QED BY <2>2, <2>3 DEF Abstract!AbsNext
<1>2. ASSUME NEW base \in Base, NEW offset \in 0..(Bytes - base),
             NEW len \in 0..(Bytes - Node(base, offset)), NEW data \in [0..(len - 1) -> Byte],
             write_at(Node(base, offset), len, data)
      PROVE  Abstract!AbsNext
  <2> DEFINE o == Node(base, offset)
  <2>1. o \in Nat /\ len \in Nat /\ o + len <= Bytes /\ o \in 0..Bytes
    BY NodeArguments
  <2> HIDE DEF o
  <2>2. Abstract!BeginWrite(Abstract!Request(o, len, data))
    <3>1. RequestOK([offset |-> o, len |-> len, data |-> data])
      BY <2>1 DEF RequestOK
    <3>2. write_at(o, len, data)
      BY <1>2 DEF o
    <3> QED BY <3>1, <3>2, RefinesWrite
  <2>3. o \in 0..Abstract!Bytes /\ len \in 0..(Abstract!Bytes - o)
    <3>1. Abstract!Bytes = Bytes /\ Bytes \in Nat
      BY ConstantsAssumption DEF Abstract!Bytes, Bytes
    <3> QED BY <2>1, <3>1
  <2> QED BY <2>2, <2>3 DEF Abstract!AbsNext
<1>3. ASSUME flush_cache PROVE [Abstract!AbsNext]_(Abstract!absVars)
  <2>1. Sector = Abstract!Sector
    BY DEF Sector, Abstract!Sector
  <2> QED BY <1>3, <2>1, RefinesFlush DEF Abstract!AbsNext
<1>4. ASSUME write_returns PROVE Abstract!EndWrite
  BY <1>4 DEF write_returns, Abstract!EndWrite, Unstored, NoRequest, Abstract!NoRequest,
              Abstract!Request
<1>5. ASSUME PowerLoss PROVE Abstract!Crash
  BY <1>5 DEF PowerLoss, Abstract!Crash, Unstored, NoRequest, Abstract!NoRequest, Abstract!Request
<1>6. ASSUME UNCHANGED vars PROVE UNCHANGED Abstract!absVars
  BY <1>6 DEF vars, Abstract!absVars, Unstored
<1> QED BY <1>1, <1>2, <1>3, <1>4, <1>5, <1>6 DEF Next, Abstract!AbsNext

(* A node of /dev is an array of bytes: for every sector size and disk,    *)
(* every transfer at any offset and length through the cache, and a crash  *)
(* between any two stores, is one the array allows.                        *)
THEOREM CacheImplementsByteStore == Spec => ImplementsByteStore
<1>1. CacheInv /\ CacheInv' /\ [Next]_vars => [Abstract!AbsNext]_(Abstract!absVars)
  BY RefinesNext
<1> QED BY <1>1, RefinesInit, CacheInvariant, PTL DEF Spec, ImplementsByteStore, Abstract!AbsSpec
=============================================================================
