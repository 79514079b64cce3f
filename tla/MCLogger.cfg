SPECIFICATION Spec
CONSTANTS
  LOG_BUFFER_SIZE = 3
  Levels = {0, 1}
  Modules = {"kernel", "driver"}
INVARIANTS
  RingConsistent
  GuardHolds
PROPERTIES
  ImplementsQueue
