--------------------------- MODULE FrameAllocator ---------------------------
(***************************************************************************)
(* The physical frame allocator (kernel/src/memory/frame.rs) with the      *)
(* parts of the kernel that take frames from it and give them back: the    *)
(* kernel heap, the address spaces of processes, and the DMA buffers of    *)
(* the AHCI and NVMe drivers.                                              *)
(*                                                                         *)
(* Every operation runs under the FRAME_ALLOCATOR mutex, so each is one    *)
(* step.  The bitmap is the set of its 1 bits.  Who holds a frame is not   *)
(* state of the kernel: held, blocks, twice, edge and returned are history. *)
(***************************************************************************)
EXTENDS Naturals, FiniteSets, FiniteSetsExt

CONSTANTS
  Bytes,        \* size of the bitmap in bytes, which is what Bitmap::len returns
  Usable,       \* frames of the USABLE regions of the memory map
  BitmapStart,  \* first frame of the bitmap itself
  BitmapCount,  \* number of frames it takes
  HeapFrames,   \* frames that init_heap maps
  Process,      \* processes that have an address space
  Heap,         \* the kernel heap, mapped before the first process exists
  Counts,       \* sizes in frames of the NVMe buffers
  FrameSize,    \* bytes in a frame
  MaxUsable     \* bound on usable_frames

Frame == 0 .. 8 * Bytes - 1
BitmapFrames == BitmapStart .. BitmapStart + BitmapCount - 1
Owner == Process \cup {Heap}

(* The memory map: the bitmap is in the first usable region that can hold  *)
(* it and the frame after the next is usable too.                          *)
ASSUME MemoryMapAssumption ==
  /\ Bytes \in Nat /\ BitmapStart \in Nat /\ BitmapCount \in Nat \ {0}
  /\ Usable \subseteq Frame
  /\ BitmapFrames \subseteq Usable
  /\ \A f \in Usable : BitmapStart <= f
  /\ BitmapStart + BitmapCount + 1 \in Usable
  /\ BitmapStart + BitmapCount + 1 < Bytes
  /\ HeapFrames \in Nat
  /\ Heap \notin Process
  /\ Counts \subseteq Nat \ {0}
  /\ FrameSize \in Nat \ {0}
  /\ MaxUsable \in Nat

VARIABLES
  free,           \* BitmapFrameAllocator::bitmap
  usable_frames,
  next_frame,
  held,           \* history: frames of the heap and of each address space
  blocks,         \* history: DMA buffers
  twice,          \* history: some frame was handed out to a second holder
  edge,           \* history: next_frame was left where no free frame is
  returned        \* history: the NVMe driver has returned a buffer

vars == <<free, usable_frames, next_frame, held, blocks, twice, edge, returned>>

Block == [drive : {"ahci", "nvme"}, start : Frame, cnt : Counts \cup {1}]

TypeOK ==
  /\ free \subseteq Frame
  /\ usable_frames \in Nat
  /\ next_frame \in 0 .. Bytes
  /\ held \in [Owner -> SUBSET Frame]
  /\ blocks \subseteq Block
  /\ twice \in BOOLEAN
  /\ edge \in BOOLEAN
  /\ returned \in BOOLEAN

Run(start, cnt) == start .. start + cnt - 1
FramesOf(b) == Run(b.start, b.cnt)
Taken == (UNION {held[o] : o \in Owner}) \cup (UNION {FramesOf(b) : b \in blocks})

(* The bitmap's own frames are not given out, and the first frame after    *)
(* them is skipped.                                                        *)
Init ==
  /\ free = Usable \ BitmapFrames
  /\ usable_frames = Cardinality(Usable) - BitmapCount
  /\ next_frame = BitmapStart + BitmapCount + 1
  /\ held = [o \in Owner |-> {}]
  /\ blocks = {}
  /\ twice = FALSE
  /\ edge = FALSE
  /\ returned = FALSE

-----------------------------------------------------------------------------
(* Mutant: the next frame is taken to be free.                             *)
next_free_unchecked(n) == IF n + 1 < Bytes THEN n + 1 ELSE Bytes

(* The first free frame after n that the scan meets.  The scan ends at     *)
(* bitmap.len(), a number of bytes.                                        *)
Ahead(n) == {f \in free : n < f /\ f < Bytes}
next_free(n) == IF Ahead(n) = {} THEN Bytes ELSE Min(Ahead(n))

HeapReady == Cardinality(held[Heap]) = HeapFrames

(* Mutant: the bit of the frame is not cleared and the scan starts from it.*)
allocate_frame_rescanning(o) ==
  /\ (o = Heap) = ~HeapReady
  /\ usable_frames > 0
  /\ usable_frames' = usable_frames - 1
  /\ next_frame' = next_free(next_frame - 1)
  /\ held' = [held EXCEPT ![o] = @ \cup {next_frame}]
  /\ twice' = (twice \/ next_frame \in Taken)
  /\ edge' = (edge \/ Ahead(next_frame) = {})
  /\ UNCHANGED <<free, blocks, returned>>

(* Mutant: usable_frames is not looked at.                                 *)
allocate_frame_uncounted(o) ==
  /\ (o = Heap) = ~HeapReady
  /\ usable_frames' = usable_frames - 1
  /\ free' = free \ {next_frame}
  /\ next_frame' = next_free(next_frame)
  /\ held' = [held EXCEPT ![o] = @ \cup {next_frame}]
  /\ twice' = (twice \/ next_frame \in Taken)
  /\ edge' = (edge \/ Ahead(next_frame) = {})
  /\ UNCHANGED <<blocks, returned>>

(* The heap takes its frames first, one by one; later the frames go to     *)
(* address spaces.  The frame handed out is next_frame, whatever its bit.  *)
allocate_frame(o) ==
  /\ (o = Heap) = ~HeapReady
  /\ usable_frames > 0
  /\ usable_frames' = usable_frames - 1
  /\ free' = free \ {next_frame}
  /\ next_frame' = next_free(next_frame)
  /\ held' = [held EXCEPT ![o] = @ \cup {next_frame}]
  /\ twice' = (twice \/ next_frame \in Taken)
  /\ edge' = (edge \/ Ahead(next_frame) = {})
  /\ UNCHANGED <<blocks, returned>>

(* Mutant: a released frame becomes the next one.                          *)
deallocate_frame_reusing(p, f) ==
  /\ f \in held[p]
  /\ free' = free \cup {f}
  /\ usable_frames' = usable_frames + 1
  /\ held' = [held EXCEPT ![p] = @ \ {f}]
  /\ next_frame' = IF f < next_frame THEN f ELSE next_frame
  /\ UNCHANGED <<blocks, twice, edge, returned>>

(* dealloc_range gives back the frames of a process one at a time.         *)
deallocate_frame(p, f) ==
  /\ f \in held[p]
  /\ free' = free \cup {f}
  /\ usable_frames' = usable_frames + 1
  /\ held' = [held EXCEPT ![p] = @ \ {f}]
  /\ UNCHANGED <<next_frame, blocks, twice, edge, returned>>

(* Dropping a process walks its page table, whose leaves include those of  *)
(* the kernel heap: they are mapped with MappingType::UserData, whose      *)
(* flags contain those the walk looks for.  So the bits of the heap are    *)
(* set as well, and counted once more.                                     *)
free_user_page_table(p) ==
  /\ HeapReady
  /\ held[p] # {}
  /\ usable_frames + Cardinality(held[p]) + HeapFrames <= MaxUsable
  /\ free' = free \cup held[p] \cup held[Heap]
  /\ usable_frames' = usable_frames + Cardinality(held[p]) + HeapFrames
  /\ held' = [held EXCEPT ![p] = {}]
  /\ UNCHANGED <<next_frame, blocks, twice, edge, returned>>

-----------------------------------------------------------------------------
(* Where a run of cnt free frames begins, next_frame first.                *)
starts(cnt) ==
  {s \in next_frame .. Bytes - 1 :
     \A i \in Run(s, cnt) : i \in free /\ i < Bytes}

(* allocate_frames as alloc_for_dma calls it.  The search returns the      *)
(* first run, and moves next_frame only if the run begins there.  Without  *)
(* a run nothing changes.                                                  *)
allocate_frames(drive, cnt) ==
  /\ HeapReady
  /\ cnt <= usable_frames
  /\ starts(cnt) # {}
  /\ LET s == Min(starts(cnt)) IN
       /\ usable_frames' = usable_frames - cnt
       /\ free' = free \ Run(s, cnt)
       /\ next_frame' = IF s = next_frame THEN s + cnt ELSE next_frame
       /\ blocks' = blocks \cup {[drive |-> drive, start |-> s, cnt |-> cnt]}
       /\ twice' = (twice \/ Run(s, cnt) \cap Taken # {})
       /\ edge' = (edge \/ (s = next_frame /\ s + cnt \notin free))
  /\ UNCHANGED <<held, returned>>

(* deallocate_frames sets the bits of cnt + 1 frames and counts cnt.       *)
deallocate_frames(b, cnt) ==
  /\ b.start + cnt \in Frame
  /\ usable_frames + cnt <= MaxUsable
  /\ usable_frames' = usable_frames + cnt
  /\ free' = free \cup (b.start .. b.start + cnt)
  /\ blocks' = blocks \ {b}
  /\ UNCHANGED <<next_frame, held, twice, edge>>

(* Dropping an Ahci returns its one-frame buffers with a count of 0.       *)
ahci_drop(b) == b.drive = "ahci" /\ deallocate_frames(b, 0) /\ UNCHANGED returned

(* read_block and write_block return their buffer with its size in bytes.  *)
nvme_dealloc(b) ==
  b.drive = "nvme" /\ deallocate_frames(b, b.cnt * FrameSize) /\ returned' = TRUE

Next ==
  \/ \E o \in Owner : allocate_frame(o)
  \/ \E p \in Process : \E f \in held[p] : deallocate_frame(p, f)
  \/ \E p \in Process : free_user_page_table(p)
  \/ allocate_frames("ahci", 1)
  \/ \E cnt \in Counts : allocate_frames("nvme", cnt)
  \/ \E b \in blocks : ahci_drop(b) \/ nvme_dealloc(b)

Spec == Init /\ [][Next]_vars

-----------------------------------------------------------------------------
(* As long as the scan has free frames ahead, no frame is handed out to a  *)
(* second holder, neither by allocate_frame, which does not look at the    *)
(* bit of the frame it returns, nor by allocate_frames: although dropping  *)
(* a process marks the heap as free.                                       *)
HeldOnce == edge \/ ~twice

(* Under the same condition what is handed out is usable memory: never the *)
(* bitmap, never a hole between two regions.                               *)
HeldUsable == edge \/ Taken \subseteq Usable \ BitmapFrames

(* next_frame never moves back: a released frame below it stays out of use *)
(* for good.  This, not the bitmap, is what protects the heap.             *)
NextFrameAdvances == [][next_frame' >= next_frame]_vars

(* Only frames whose bit is set are handed out: a kernel that has none     *)
(* reports "No more usable frames!" instead (frame.rs:186).                *)
OnlyFreeHandedOut == [][Taken' \ Taken \subseteq free]_vars

(* As long as free frames lie ahead of the scan and the NVMe driver has     *)
(* returned no buffer, a frame has one holder and is usable memory.         *)
FramesSound == TypeOK /\ (returned \/ (HeldOnce /\ HeldUsable))
=============================================================================
