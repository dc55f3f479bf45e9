SPECIFICATION MCSpec
CONSTANTS
  SectorSize = 2
  NSectors = 3
  Byte = {0, 1}
  Base = {0, 4}
  Word = 16
  Kinds = {"cache", "volume", "chain", "directory", "ext2"}
  Name = {n1, n2}
INVARIANTS CacheCoherent ClustersOwned FilesExact  
PROPERTIES ImplementsByteStore
CHECK_DEADLOCK FALSE
