SPECIFICATION BootSpec
CONSTANTS
  Maps <- BootMaps
  Kernels = {56}
  HEAP_SIZE = 32
  Requests = {4, 8, 10, 20, 30, 40}
  Alignments = {8}
  MaxCalls = 12
INVARIANT PayloadsDisjoint
CHECK_DEADLOCK FALSE
