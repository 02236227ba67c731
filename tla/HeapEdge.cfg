CONSTANTS
  HeapStart = 1
  HeapSize = 40
  Requests <- MCRequests
SPECIFICATION Spec
INVARIANTS
  HeadersInsideHeap
