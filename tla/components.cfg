SPECIFICATION MCSpec
CONSTANTS
  Kinds = {"guest", "mutex", "rwlock", "semaphore", "heap", "trie", "vcpu", "mouse", "hpet", "rtc", "locks", "files", "list", "tables", "stdio"}
  PageSize = 2
  Space = 8
  HostStart = {0, 3, 6}
  Sizes = {0, 1, 2, 3, 4}
  Unused = unused
  Thread = {t1, t2, t3}
  Nobody = nobody
  MaxDepth = 2
  Units = 2
  Posts = 2
  Vectors = {14, 32}
  InitialCounts = {0, 1, 2}
  DivideValues = {0, 9, 11}
  Moments = 4
  Events = 2
  FirstBytes = {24, 72}
  MotionBytes = {5, 8}
  PacketSize = 4
  HalfRange = 3
  TicksBound = 10
  TickStep = 4
  LastYear = 79
INVARIANTS
  GuestMemorySound LocksSound AllocatorSound VCpuSound DevicesExact NoDeadlock AddressSpaces
  PathsExact  
PROPERTIES NothingMoves
CHECK_DEADLOCK FALSE
