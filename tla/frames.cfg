SPECIFICATION Spec
CONSTANTS
  Bytes = 10
  Usable <- TwoRegions
  BitmapStart = 1
  BitmapCount = 1
  HeapFrames = 1
  Process = {p1, p2}
  Heap = heap
  Counts = {2}
  FrameSize = 4
  MaxUsable = 8
SYMMETRY Symmetry
 
PROPERTIES NextFrameAdvances
CHECK_DEADLOCK FALSE
