SPECIFICATION MemorySpec
CONSTANTS
  t1 = t1
  t2 = t2
  Thread <- TwoThreads
  FrameSizes <- MCFrameSizes
  AllocaSizes <- MCAllocaSizes
  MaxBlocks = 4
  MaxFrames = 2
  MaxAllocas = 1
  Entry <- MixedEntries
  INITIAL_EVENT_CAPACITY = 1
  MaxCapacity = 8
INVARIANTS
  LiveMemoryIsExclusive
  HeapOrder
  RootIsFirst
PROPERTIES
  ImplementsEventSet
