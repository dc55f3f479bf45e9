------------------------ MODULE FrameAllocatorProofs ------------------------
(***************************************************************************)
(* Proofs about the frame allocator, for every memory map, heap size, set  *)
(* of processes and set of buffer sizes.                                   *)
(***************************************************************************)
EXTENDS FrameAllocator, NaturalLemmas, FiniteSetTheorems, TLAPS

(* The frames that may be handed out.                                      *)
Memory == Usable \ BitmapFrames

(* Until NVMe returns a buffer or the scan is left on a frame not free,    *)
(* next_frame is free, all that was taken one by one lies below it, and a  *)
(* DMA buffer, which may lie above it, has its bits cleared there.         *)
Watermark ==
  ~edge /\ ~returned =>
    /\ ~twice
    /\ next_frame \in free
    /\ free \subseteq Memory
    /\ \A o \in Owner : \A f \in held[o] : f < next_frame /\ f \in Memory
    /\ \A b \in blocks : \A f \in FramesOf(b) :
         f \in Memory /\ (f < next_frame \/ f \notin free)
    /\ \A b \in blocks : \A c \in blocks :
         b # c => FramesOf(b) \cap FramesOf(c) = {}

Inv == TypeOK /\ Watermark

-----------------------------------------------------------------------------
(* A non-empty set of frames has a least member, so Min is well defined.   *)
LEMMA LeastFrame ==
  ASSUME NEW S \in SUBSET Nat, S # {}
  PROVE  Min(S) \in S /\ \A f \in S : Min(S) <= f
<1>1. \E x \in S : \A y \in S : x =< y
  BY LeastNatural
<1> QED BY <1>1 DEF Min

(* The bitmap has finitely many bits.                                      *)
LEMMA FrameFinite ==
  /\ Bytes \in Nat \ {0}
  /\ Frame \subseteq Nat
  /\ 0 .. Bytes \subseteq Frame
  /\ \A S \in SUBSET Frame : IsFiniteSet(S) /\ Cardinality(S) \in Nat
<1>1. Bytes \in Nat \ {0}
  BY MemoryMapAssumption
<1>2. Frame \subseteq Nat /\ 0 .. Bytes \subseteq Frame
  BY <1>1 DEF Frame
<1>3. IsFiniteSet(Frame)
  <2>1. 0 \in Int /\ 8 * Bytes - 1 \in Int
    BY <1>1
  <2> QED BY <2>1, FS_Interval DEF Frame
<1>4. \A S \in SUBSET Frame : IsFiniteSet(S)
  BY <1>3, FS_Subset
<1>5. \A S \in SUBSET Frame : Cardinality(S) \in Nat
  BY <1>4, FS_CardinalityType
<1> QED BY <1>1, <1>2, <1>4, <1>5

(* A frame is taken when somebody holds it.                                *)
LEMMA TakenBy ==
  ASSUME NEW f
  PROVE  f \in Taken <=> \/ \E o \in Owner : f \in held[o]
                         \/ \E b \in blocks : f \in FramesOf(b)
BY Zenon DEF Taken

(* A DMA buffer is a non-empty run of frames.                              *)
LEMMA BlockType ==
  ASSUME TypeOK, NEW b \in blocks
  PROVE  b.start \in Frame /\ b.start \in Nat /\ b.cnt \in Nat \ {0}
<1>1. b \in Block
  BY DEF TypeOK
<1>2. b.start \in Frame /\ b.cnt \in Counts \cup {1}
  BY <1>1 DEF Block
<1>3. b.cnt \in Nat \ {0}
  <2>1. Counts \subseteq Nat \ {0}
    BY MemoryMapAssumption
  <2>2. CASE b.cnt = 1
    BY <2>2
  <2>3. CASE b.cnt \in Counts
    BY <2>1, <2>3
  <2> QED BY <2>2, <2>3, <1>2
<1>4. b.start \in Nat
  BY <1>2, FrameFinite
<1> QED BY <1>2, <1>3, <1>4

(* The kernel starts with a free frame at next_frame and a count that is   *)
(* not negative, because the bitmap lies in usable memory.                 *)
LEMMA InvInit == Init => Inv
<1> SUFFICES ASSUME Init PROVE Inv
  OBVIOUS
<1>1. Cardinality(Usable) \in Nat /\ IsFiniteSet(Usable)
  BY FrameFinite, MemoryMapAssumption
<1>2. BitmapStart \in Int /\ BitmapStart + BitmapCount - 1 \in Int /\ BitmapCount > 0
      /\ BitmapCount \in Nat
  BY MemoryMapAssumption
<1>3. Cardinality(BitmapFrames) = BitmapCount
  BY <1>2, FS_Interval DEF BitmapFrames
<1>4. Cardinality(BitmapFrames) <= Cardinality(Usable)
  BY <1>1, FS_Subset, MemoryMapAssumption
<1>5. usable_frames \in Nat
  BY <1>1, <1>2, <1>3, <1>4 DEF Init
<1>6. next_frame \in free /\ next_frame \in 0 .. Bytes
  BY MemoryMapAssumption DEF Init, BitmapFrames
<1>7. TypeOK
  BY <1>5, <1>6, MemoryMapAssumption DEF Init, TypeOK
<1>8. Watermark
  BY <1>6 DEF Init, Watermark, Memory
<1> QED BY <1>7, <1>8 DEF Inv
-----------------------------------------------------------------------------
(* The scan returns the next free frame, or bitmap.len().                  *)
LEMMA NextFree ==
  ASSUME TypeOK
  PROVE  /\ next_free(next_frame) \in 0 .. Bytes
         /\ next_free(next_frame) >= next_frame
         /\ Ahead(next_frame) # {} =>
              next_free(next_frame) \in free /\ next_free(next_frame) > next_frame
<1>1. /\ Bytes \in Nat /\ next_frame \in Nat /\ next_frame <= Bytes
      /\ Ahead(next_frame) \in SUBSET Nat
  <2>1. Bytes \in Nat /\ next_frame \in 0 .. Bytes /\ free \subseteq Nat
    BY FrameFinite DEF TypeOK
  <2>2. Ahead(next_frame) \subseteq Nat
    BY <2>1 DEF Ahead
  <2>3. next_frame \in Nat /\ next_frame <= Bytes
    BY <2>1
  <2> QED BY <2>1, <2>2, <2>3
<1>2. CASE Ahead(next_frame) = {}
  BY <1>1, <1>2 DEF next_free
<1>3. CASE Ahead(next_frame) # {}
  <2>1. Min(Ahead(next_frame)) \in Ahead(next_frame)
    BY <1>1, <1>3, LeastFrame
  <2>2. next_free(next_frame) \in Ahead(next_frame)
    BY <2>1, <1>3 DEF next_free
  <2>3. /\ next_free(next_frame) \in free
        /\ next_frame < next_free(next_frame)
        /\ next_free(next_frame) < Bytes
        /\ next_free(next_frame) \in Nat
    BY <2>2, <1>1 DEF Ahead
  <2> QED BY <2>3, <1>1
<1> QED BY <1>2, <1>3

(* The run that allocate_frames takes is free and lies at or above         *)
(* next_frame, within the part of the bitmap that is scanned.              *)
LEMMA FirstRun ==
  ASSUME TypeOK, NEW cnt \in Nat \ {0}, starts(cnt) # {}
  PROVE  /\ Min(starts(cnt)) \in Frame
         /\ Min(starts(cnt)) >= next_frame
         /\ Min(starts(cnt)) + cnt \in 0 .. Bytes
         /\ \A i \in Run(Min(starts(cnt)), cnt) : i \in free /\ i >= next_frame
<1>1. Bytes \in Nat /\ next_frame \in Nat /\ starts(cnt) \in SUBSET Nat
  BY FrameFinite DEF TypeOK, starts
<1> DEFINE s == Min(starts(cnt))
<1>2. s \in starts(cnt)
  BY <1>1, LeastFrame
<1> HIDE DEF s
<1>3. s \in next_frame .. Bytes - 1 /\ \A i \in Run(s, cnt) : i \in free /\ i < Bytes
  BY <1>2 DEF starts
<1>4. s \in Nat /\ s >= next_frame /\ s < Bytes
  BY <1>1, <1>3
<1>5. s + cnt - 1 \in Run(s, cnt)
  BY <1>4 DEF Run
<1>6. s + cnt - 1 < Bytes
  BY <1>3, <1>5
<1>7. s + cnt \in 0 .. Bytes
  BY <1>1, <1>4, <1>6
<1>8. \A i \in Run(s, cnt) : i >= next_frame
  BY <1>1, <1>4 DEF Run
<1>9. s \in Frame
  BY <1>4, <1>1, FrameFinite
<1> QED BY <1>3, <1>4, <1>7, <1>8, <1>9 DEF s

(* allocate_frame returns next_frame, which is free, and moves past it.    *)
LEMMA InvAllocateFrame ==
  ASSUME Inv, NEW o \in Owner, allocate_frame(o)
  PROVE  Inv'
<1>1. TypeOK /\ Watermark
  BY DEF Inv
<1>2. /\ next_free(next_frame) \in 0 .. Bytes
      /\ Ahead(next_frame) # {} =>
           next_free(next_frame) \in free /\ next_free(next_frame) > next_frame
  BY <1>1, NextFree
<1>3. next_frame \in Frame /\ next_frame \in Nat /\ Frame \subseteq Nat
  BY <1>1, FrameFinite DEF TypeOK
<1>4. next_frame' = next_free(next_frame) /\ next_frame' \in Nat
      /\ next_frame' \in 0 .. Bytes
  BY <1>2, FrameFinite DEF allocate_frame
<1>5. \A q \in Owner : held'[q] \subseteq held[q] \cup {next_frame}
  BY <1>1 DEF allocate_frame, TypeOK
<1>6. TypeOK'
  <2>1. held' \in [Owner -> SUBSET Frame]
    BY <1>1, <1>3 DEF allocate_frame, TypeOK
  <2>2. usable_frames' \in Nat
    BY <1>1 DEF allocate_frame, TypeOK
  <2>3. twice' \in BOOLEAN /\ edge' \in BOOLEAN /\ returned' \in BOOLEAN
    BY <1>1, Zenon DEF allocate_frame, TypeOK
  <2>4. free' \subseteq Frame /\ blocks' \subseteq Block
    BY <1>1 DEF allocate_frame, TypeOK
  <2> QED BY <2>1, <2>2, <2>3, <2>4, <1>4 DEF TypeOK, Block
<1>7. Watermark'
  <2> SUFFICES ASSUME ~edge', ~returned
               PROVE  Watermark'
    BY DEF Watermark, allocate_frame
  <2>1. ~edge /\ Ahead(next_frame) # {}
    BY DEF allocate_frame
  <2>2. next_frame' \in free /\ next_frame' > next_frame
    BY <1>2, <1>4, <2>1
  <2>3. next_frame \in free /\ ~twice /\ free \subseteq Memory
    BY <1>1, <2>1 DEF Watermark
  <2>4. next_frame \notin Taken
    <3>1. \A q \in Owner : next_frame \notin held[q]
      BY <1>1, <1>3, <2>1 DEF Watermark, TypeOK
    <3>2. \A b \in blocks : next_frame \notin FramesOf(b)
      BY <1>1, <1>3, <2>1, <2>3 DEF Watermark
    <3> QED BY <3>1, <3>2, TakenBy
  <2>5. ~twice'
    BY <2>3, <2>4 DEF allocate_frame
  <2>6. next_frame' \in free' /\ free' \subseteq Memory /\ free' \subseteq free
    BY <2>2, <2>3, <1>3, <1>4 DEF allocate_frame
  <2>7. \A q \in Owner : \A f \in held'[q] : f < next_frame' /\ f \in Memory
    <3> SUFFICES ASSUME NEW q \in Owner, NEW f \in held'[q]
                 PROVE  f < next_frame' /\ f \in Memory
      OBVIOUS
    <3>1. CASE f = next_frame
      BY <3>1, <2>2, <2>3, <1>3, <1>4
    <3>2. CASE f \in held[q]
      <4>1. f < next_frame /\ f \in Memory /\ f \in Nat
        BY <3>2, <1>1, <1>3, <2>1 DEF Watermark, TypeOK
      <4> QED BY <4>1, <2>2, <1>3, <1>4
    <3> QED BY <3>1, <3>2, <1>5
  <2>8. \A b \in blocks' : \A f \in FramesOf(b) :
          f \in Memory /\ (f < next_frame' \/ f \notin free')
    <3> SUFFICES ASSUME NEW b \in blocks, NEW f \in FramesOf(b)
                 PROVE  f \in Memory /\ (f < next_frame' \/ f \notin free')
      BY DEF allocate_frame
    <3>1. f \in Memory /\ (f < next_frame \/ f \notin free)
      BY <1>1, <2>1 DEF Watermark
    <3>2. f \in Nat
      BY <3>1, <1>3, MemoryMapAssumption DEF Memory
    <3> QED BY <3>1, <3>2, <2>2, <2>6, <1>3, <1>4
  <2>9. \A b \in blocks' : \A c \in blocks' :
          b # c => FramesOf(b) \cap FramesOf(c) = {}
    BY <1>1, <2>1 DEF allocate_frame, Watermark
  <2> QED BY <2>5, <2>6, <2>7, <2>8, <2>9 DEF Watermark
<1> QED BY <1>6, <1>7 DEF Inv

(* Setting bits of frames that lie below next_frame, because they were     *)
(* taken one by one, keeps the invariant: this covers deallocate_frame and *)
(* the walk that frees the heap together with a process.                   *)
LEMMA InvRelease ==
  ASSUME Inv,
         NEW released \in SUBSET Frame,
         \A f \in released : \E o \in Owner : f \in held[o],
         free' = free \cup released,
         usable_frames' \in Nat,
         held' \in [Owner -> SUBSET Frame],
         \A o \in Owner : held'[o] \subseteq held[o],
         UNCHANGED <<next_frame, blocks, twice, edge, returned>>
  PROVE  Inv'
<1>1. TypeOK /\ Watermark
  BY DEF Inv
<1>2. TypeOK'
  BY <1>1 DEF TypeOK, Block
<1>3. Watermark'
  <2> SUFFICES ASSUME ~edge, ~returned PROVE Watermark'
    BY DEF Watermark
  <2>1. \A f \in released : f < next_frame /\ f \in Memory
    BY <1>1 DEF Watermark
  <2>2. ~twice' /\ next_frame' \in free' /\ free' \subseteq Memory
    BY <1>1, <2>1 DEF Watermark
  <2>3. \A o \in Owner : \A f \in held'[o] : f < next_frame' /\ f \in Memory
    BY <1>1 DEF Watermark
  <2>4. \A b \in blocks' : \A f \in FramesOf(b) :
          f \in Memory /\ (f < next_frame' \/ f \notin free')
    BY <1>1, <2>1 DEF Watermark
  <2>5. \A b \in blocks' : \A c \in blocks' :
          b # c => FramesOf(b) \cap FramesOf(c) = {}
    BY <1>1 DEF Watermark
  <2> QED BY <2>2, <2>3, <2>4, <2>5 DEF Watermark
<1> QED BY <1>2, <1>3 DEF Inv

(* A process gives back one of its frames.                                 *)
LEMMA InvDeallocateFrame ==
  ASSUME Inv, NEW p \in Process, NEW f \in held[p], deallocate_frame(p, f)
  PROVE  Inv'
<1>1. TypeOK /\ p \in Owner
  BY DEF Inv, Owner
<1>2. {f} \in SUBSET Frame
  BY <1>1 DEF TypeOK
<1>3. held' \in [Owner -> SUBSET Frame] /\ \A o \in Owner : held'[o] \subseteq held[o]
  BY <1>1 DEF deallocate_frame, TypeOK
<1>4. usable_frames' \in Nat /\ free' = free \cup {f}
      /\ UNCHANGED <<next_frame, blocks, twice, edge, returned>>
  BY <1>1 DEF deallocate_frame, TypeOK
<1> QED BY <1>1, <1>2, <1>3, <1>4, InvRelease

(* A process is dropped, and the heap's frames are marked free with it.    *)
LEMMA InvFreeUserPageTable ==
  ASSUME Inv, NEW p \in Process, free_user_page_table(p)
  PROVE  Inv'
<1>1. TypeOK /\ p \in Owner /\ Heap \in Owner
  BY DEF Inv, Owner
<1> DEFINE released == held[p] \cup held[Heap]
<1>2. released \in SUBSET Frame /\ held[p] \in SUBSET Frame
  BY <1>1 DEF TypeOK
<1>3. \A f \in released : \E o \in Owner : f \in held[o]
  BY <1>1
<1>4. held' \in [Owner -> SUBSET Frame] /\ \A o \in Owner : held'[o] \subseteq held[o]
  BY <1>1 DEF free_user_page_table, TypeOK
<1>5. usable_frames' \in Nat
  <2>1. Cardinality(held[p]) \in Nat /\ HeapFrames \in Nat /\ usable_frames \in Nat
    BY <1>1, <1>2, FrameFinite, MemoryMapAssumption DEF TypeOK
  <2> QED BY <2>1 DEF free_user_page_table
<1>6. free' = free \cup released /\ UNCHANGED <<next_frame, blocks, twice, edge, returned>>
  BY DEF free_user_page_table
<1> HIDE DEF released
<1> QED BY <1>2, <1>3, <1>4, <1>5, <1>6, InvRelease

(* allocate_frames takes free frames at or above next_frame, which nobody  *)
(* holds.                                                                  *)
LEMMA InvAllocateFrames ==
  ASSUME Inv, NEW drive \in {"ahci", "nvme"}, NEW cnt \in Counts \cup {1},
         allocate_frames(drive, cnt)
  PROVE  Inv'
<1> DEFINE s == Min(starts(cnt))
           new == [drive |-> drive, start |-> s, cnt |-> cnt]
<1>1. TypeOK /\ Watermark /\ cnt \in Nat \ {0}
  BY MemoryMapAssumption DEF Inv
<1>2. /\ s \in Frame /\ s >= next_frame /\ s + cnt \in 0 .. Bytes
      /\ \A i \in Run(s, cnt) : i \in free /\ i >= next_frame
  <2>1. starts(cnt) # {}
    BY DEF allocate_frames
  <2> QED BY <1>1, <2>1, FirstRun
<1>3. /\ cnt <= usable_frames
      /\ usable_frames' = usable_frames - cnt
      /\ free' = free \ Run(s, cnt)
      /\ next_frame' = IF s = next_frame THEN s + cnt ELSE next_frame
      /\ blocks' = blocks \cup {new}
      /\ twice' = (twice \/ Run(s, cnt) \cap Taken # {})
      /\ edge' = (edge \/ (s = next_frame /\ s + cnt \notin free))
      /\ held' = held /\ returned' = returned
  BY DEF allocate_frames
<1>4. new \in Block /\ FramesOf(new) = Run(s, cnt)
  BY <1>2 DEF Block, FramesOf
<1> HIDE DEF s, new
<1>5. s \in Nat /\ next_frame \in Nat /\ Frame \subseteq Nat /\ s < s + cnt
  BY <1>1, <1>2, FrameFinite DEF TypeOK
<1>6. next_frame' \in 0 .. Bytes /\ next_frame' \in Nat /\ next_frame' >= next_frame
  BY <1>1, <1>2, <1>3, <1>5 DEF TypeOK
<1>7. TypeOK'
  <2>1. usable_frames' \in Nat
    BY <1>1, <1>3 DEF TypeOK
  <2>2. twice' \in BOOLEAN /\ edge' \in BOOLEAN /\ returned' \in BOOLEAN
    BY <1>1, <1>3, Zenon DEF TypeOK
  <2>3. free' \subseteq Frame /\ blocks' \subseteq Block /\ held' \in [Owner -> SUBSET Frame]
    BY <1>1, <1>3, <1>4 DEF TypeOK
  <2> QED BY <2>1, <2>2, <2>3, <1>6 DEF TypeOK, Block
<1>8. Watermark'
  <2> SUFFICES ASSUME ~edge', ~returned PROVE Watermark'
    BY <1>3 DEF Watermark
  <2>1. ~edge /\ ~twice /\ next_frame \in free /\ free \subseteq Memory
        /\ (s = next_frame => s + cnt \in free)
    BY <1>1, <1>3 DEF Watermark
  <2>2. \A f \in Run(s, cnt) : f \notin Taken
    <3> SUFFICES ASSUME NEW f \in Run(s, cnt) PROVE f \notin Taken
      OBVIOUS
    <3>1. f \in free /\ f >= next_frame /\ f \in Nat
      BY <1>1, <1>2, <1>5 DEF TypeOK
    <3>2. \A o \in Owner : f \notin held[o]
      BY <3>1, <1>1, <1>5, <2>1 DEF Watermark
    <3>3. \A b \in blocks : f \notin FramesOf(b)
      BY <3>1, <1>1, <1>5, <2>1 DEF Watermark
    <3> QED BY <3>2, <3>3, TakenBy
  <2>3. ~twice'
    BY <1>3, <2>1, <2>2
  <2>4. next_frame' \notin Run(s, cnt)
    BY <1>2, <1>3, <1>5, <1>1 DEF Run
  <2>5. next_frame' \in free' /\ free' \subseteq Memory /\ free' \subseteq free
    BY <1>3, <2>1, <2>4
  <2>6. \A o \in Owner : \A f \in held'[o] : f < next_frame' /\ f \in Memory
    <3> SUFFICES ASSUME NEW o \in Owner, NEW f \in held[o]
                 PROVE  f < next_frame' /\ f \in Memory
      BY <1>3
    <3>1. f < next_frame /\ f \in Memory /\ f \in Nat
      BY <1>1, <1>5, <2>1 DEF Watermark, TypeOK
    <3> QED BY <3>1, <1>5, <1>6
  <2>7. \A b \in blocks' : \A f \in FramesOf(b) :
          f \in Memory /\ (f < next_frame' \/ f \notin free')
    <3> SUFFICES ASSUME NEW b \in blocks', NEW f \in FramesOf(b)
                 PROVE  f \in Memory /\ (f < next_frame' \/ f \notin free')
      OBVIOUS
    <3>1. CASE b = new
      BY <3>1, <1>2, <1>3, <1>4, <2>1
    <3>2. CASE b \in blocks
      <4>1. f \in Memory /\ (f < next_frame \/ f \notin free)
        BY <3>2, <1>1, <2>1 DEF Watermark
      <4>2. f \in Nat
        BY <4>1, <1>5, MemoryMapAssumption DEF Memory
      <4> QED BY <4>1, <4>2, <1>5, <1>6, <2>5
    <3> QED BY <3>1, <3>2, <1>3
  <2>8. \A b \in blocks : FramesOf(b) \cap FramesOf(new) = {}
    BY <1>4, <2>2, TakenBy
  <2>9. \A b \in blocks' : \A c \in blocks' :
          b # c => FramesOf(b) \cap FramesOf(c) = {}
    BY <1>1, <1>3, <2>1, <2>8 DEF Watermark
  <2> QED BY <2>3, <2>5, <2>6, <2>7, <2>9 DEF Watermark
<1> QED BY <1>7, <1>8 DEF Inv

(* The buffer of an Ahci is one frame, which goes back to the bitmap; no   *)
(* other buffer contains it.                                               *)
LEMMA InvAhciDrop ==
  ASSUME Inv, NEW b \in blocks, ahci_drop(b)
  PROVE  Inv'
<1>1. TypeOK /\ Watermark
  BY DEF Inv
<1>2. b.start \in Frame /\ b.cnt \in Nat \ {0} /\ b.start \in Nat
  BY <1>1, BlockType
<1>3. b.start .. b.start + 0 = {b.start} /\ b.start \in FramesOf(b)
  BY <1>2 DEF FramesOf, Run
<1>4. /\ free' = free \cup {b.start} /\ blocks' = blocks \ {b}
      /\ usable_frames' = usable_frames + 0
      /\ UNCHANGED <<next_frame, held, twice, edge, returned>>
  BY <1>3 DEF ahci_drop, deallocate_frames
<1>5. TypeOK'
  <2>1. free' \subseteq Frame /\ blocks' \subseteq Block /\ usable_frames' \in Nat
    BY <1>1, <1>2, <1>4 DEF TypeOK
  <2> QED BY <2>1, <1>1, <1>4 DEF TypeOK, Block
<1>6. Watermark'
  <2> SUFFICES ASSUME ~edge, ~returned PROVE Watermark'
    BY <1>4 DEF Watermark
  <2>1. ~twice' /\ next_frame' \in free' /\ free' \subseteq Memory
    BY <1>1, <1>3, <1>4 DEF Watermark
  <2>2. \A o \in Owner : \A f \in held'[o] : f < next_frame' /\ f \in Memory
    BY <1>1, <1>4 DEF Watermark
  <2>3. \A c \in blocks' : \A f \in FramesOf(c) :
          f \in Memory /\ (f < next_frame' \/ f \notin free')
    <3> SUFFICES ASSUME NEW c \in blocks, c # b, NEW f \in FramesOf(c)
                 PROVE  f \in Memory /\ (f < next_frame' \/ f \notin free')
      BY <1>4
    <3>1. f # b.start
      BY <1>1, <1>3 DEF Watermark
    <3> QED BY <3>1, <1>1, <1>4 DEF Watermark
  <2>4. \A c \in blocks' : \A d \in blocks' :
          c # d => FramesOf(c) \cap FramesOf(d) = {}
    BY <1>1, <1>4 DEF Watermark
  <2> QED BY <2>1, <2>2, <2>3, <2>4 DEF Watermark
<1> QED BY <1>5, <1>6 DEF Inv

(* An NVMe buffer goes back with its size in bytes: only the types remain. *)
LEMMA InvNvmeDealloc ==
  ASSUME Inv, NEW b \in blocks, nvme_dealloc(b)
  PROVE  Inv'
<1>1. TypeOK
  BY DEF Inv
<1> DEFINE n == b.cnt * FrameSize
<1>2. n \in Nat /\ b.start \in Nat
  <2>1. b.cnt \in Nat /\ b.start \in Nat /\ FrameSize \in Nat
    BY <1>1, BlockType, MemoryMapAssumption
  <2> QED BY <2>1
<1>3. /\ b.start + n \in Frame
      /\ free' = free \cup (b.start .. b.start + n) /\ blocks' = blocks \ {b}
      /\ usable_frames' = usable_frames + n
      /\ UNCHANGED <<next_frame, held, twice, edge>> /\ returned' = TRUE
  BY DEF nvme_dealloc, deallocate_frames
<1> HIDE DEF n
<1>4. b.start .. b.start + n \subseteq Frame
  BY <1>2, <1>3, FrameFinite DEF Frame
<1>5. TypeOK'
  <2>1. free' \subseteq Frame /\ blocks' \subseteq Block
    BY <1>1, <1>3, <1>4 DEF TypeOK
  <2>2. usable_frames' \in Nat
    BY <1>1, <1>2, <1>3 DEF TypeOK
  <2> QED BY <2>1, <2>2, <1>1, <1>3 DEF TypeOK, Block
<1> QED BY <1>3, <1>5 DEF Inv, Watermark

(* Every operation keeps the inductive invariant.                          *)
LEMMA InvNext == Inv /\ [Next]_vars => Inv'
<1> SUFFICES ASSUME Inv, [Next]_vars PROVE Inv'
  OBVIOUS
<1>1. ASSUME NEW o \in Owner, allocate_frame(o) PROVE Inv'
  BY <1>1, InvAllocateFrame
<1>2. ASSUME NEW p \in Process, NEW f \in held[p], deallocate_frame(p, f) PROVE Inv'
  BY <1>2, InvDeallocateFrame
<1>3. ASSUME NEW p \in Process, free_user_page_table(p) PROVE Inv'
  BY <1>3, InvFreeUserPageTable
<1>4. CASE allocate_frames("ahci", 1)
  BY <1>4, InvAllocateFrames
<1>5. ASSUME NEW cnt \in Counts, allocate_frames("nvme", cnt) PROVE Inv'
  BY <1>5, InvAllocateFrames
<1>6. ASSUME NEW b \in blocks, ahci_drop(b) PROVE Inv'
  BY <1>6, InvAhciDrop
<1>7. ASSUME NEW b \in blocks, nvme_dealloc(b) PROVE Inv'
  BY <1>7, InvNvmeDealloc
<1>8. CASE UNCHANGED vars
  BY <1>8 DEF vars, Inv, TypeOK, Watermark, Block
<1> QED BY <1>1, <1>2, <1>3, <1>4, <1>5, <1>6, <1>7, <1>8 DEF Next

(* The inductive invariant holds throughout.                               *)
THEOREM Invariance == Spec => []Inv
BY InvInit, InvNext, PTL DEF Spec

(* The bitmap, the count and the cursor keep their types; in particular    *)
(* the count never falls below zero and the cursor never passes            *)
(* bitmap.len(), for every memory map.                                     *)
THEOREM TypeCorrect == Spec => []TypeOK
<1>1. Inv => TypeOK
  BY DEF Inv
<1> QED BY <1>1, Invariance, PTL

(* Until the NVMe driver returns a buffer no frame gets a second holder as *)
(* long as free frames lie ahead of the scan, for every memory map and     *)
(* heap size.                                                              *)
THEOREM NoFrameHeldTwice == Spec => [](returned \/ HeldOnce)
<1>1. Inv => returned \/ HeldOnce
  BY DEF Inv, Watermark, HeldOnce
<1> QED BY <1>1, Invariance, PTL

(* Under the same conditions only usable memory outside the bitmap is      *)
(* handed out.                                                             *)
THEOREM OnlyUsableHeld == Spec => [](returned \/ HeldUsable)
<1>1. ASSUME Inv PROVE returned \/ HeldUsable
  <2> SUFFICES ASSUME ~edge, ~returned, NEW f \in Taken PROVE f \in Memory
    BY Zenon DEF HeldUsable, Memory
  <2>1. \/ \E o \in Owner : f \in held[o]
        \/ \E b \in blocks : f \in FramesOf(b)
    BY TakenBy
  <2> QED BY <1>1, <2>1 DEF Inv, Watermark
<1> QED BY <1>1, Invariance, PTL

(* Both together, with the types.                                           *)
THEOREM FramesHeldSoundly == Spec => []FramesSound
<1>1. TypeOK /\ (returned \/ HeldOnce) /\ (returned \/ HeldUsable) => FramesSound
  BY DEF FramesSound
<1> QED BY <1>1, TypeCorrect, NoFrameHeldTwice, OnlyUsableHeld, PTL

(* No operation moves next_frame back, NVMe buffers or not.              *)
THEOREM NextFrameNeverBack == Spec => NextFrameAdvances
<1>1. ASSUME Inv, [Next]_vars PROVE [next_frame' >= next_frame]_vars
  <2>1. TypeOK /\ next_frame \in Nat
    BY <1>1 DEF Inv, TypeOK
  <2>2. ASSUME NEW o \in Owner, allocate_frame(o) PROVE next_frame' >= next_frame
    BY <2>1, <2>2, NextFree DEF allocate_frame
  <2>3. ASSUME NEW drive, NEW cnt \in Counts \cup {1}, allocate_frames(drive, cnt)
        PROVE  next_frame' >= next_frame
    <3>1. cnt \in Nat \ {0}
      BY MemoryMapAssumption
    <3> QED BY <2>1, <2>3, <3>1 DEF allocate_frames
  <2>4. ASSUME UNCHANGED next_frame PROVE next_frame' >= next_frame
    BY <2>1, <2>4
  <2> QED BY <1>1, <2>2, <2>3, <2>4
    DEF Next, deallocate_frame, free_user_page_table, ahci_drop, nvme_dealloc,
        deallocate_frames
<1> QED BY <1>1, Invariance, PTL DEF Spec, NextFrameAdvances
=============================================================================
