SPECIFICATION Spec
CONSTANTS
  Bytes = 10
  Usable <- TwoRegions
  BitmapStart = 1
  BitmapCount = 1
  HeapFrames = 1
  Process = {p1}
  Heap = heap
  Counts = {1, 3}
  FrameSize = 4
  MaxUsable = 10
INVARIANTS HeldOnce
CHECK_DEADLOCK FALSE
