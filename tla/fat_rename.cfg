SPECIFICATION MCSpec
CONSTANTS
  SectorSize = 2
  NSectors = 3
  Byte = {0, 1}
  Base = {0, 2}
  Word = 16
  Kinds = {"directory"}
  Name = {n1, n2}
PROPERTIES RenameKeeps
CHECK_DEADLOCK FALSE
