SPECIFICATION Spec
CONSTANTS
  Bytes = 10
  Usable <- TwoRegions
  BitmapStart = 1
  BitmapCount = 1
  HeapFrames = 1
  Process = {p1}
  Heap = heap
  Counts = {1}
  FrameSize = 2
  MaxUsable = 8
PROPERTIES OnlyFreeHandedOut
CHECK_DEADLOCK FALSE
