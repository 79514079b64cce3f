SPECIFICATION ListSpec
CONSTANTS
  Maps <- MCMaps
  Kernels = {24, 25}
  HEAP_SIZE = 32
  Requests = {1, 4, 12}
  Alignments = {8}
  MaxCalls = 8
  Preempt = FALSE
INVARIANTS
  BlockLayout
  WrapOnlyAtBoot
PROPERTIES
  ImplementsHeap
  AllocatePreserves
  FreeReturnsAll
  NeighboursMerged
  InitialSegment
CHECK_DEADLOCK FALSE
