CONSTANTS
  HeapStart = 1
  HeapSize = 40
  Requests <- MCRequests
SPECIFICATION FairSpec
INVARIANTS
  IInv
  Tiling
  SearchIsFutile
PROPERTIES
  ImplementsAllocator
  KallocReturns
