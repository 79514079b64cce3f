SPECIFICATION Spec
CONSTANTS
  Vectors = {8, 10, 11, 12, 17}
  StubAddress <- MCStubAddress
  Words = {16, 35}
INVARIANTS
  ReturnsIntact
CHECK_DEADLOCK FALSE
