SPECIFICATION ListSpec
CONSTANTS
  Maps <- SmallMap
  Kernels = {24}
  HEAP_SIZE = 32
  Requests = {1, 4, 12}
  Alignments = {8}
  MaxCalls = 4
  Preempt = TRUE
PROPERTIES
  MallocTakes
CHECK_DEADLOCK FALSE
