SPECIFICATION Spec
CONSTANTS
  Vectors = {0, 3, 13, 14, 64, 72, 128, 255}
  StubAddress <- MCStubAddress
  Words = {16, 35}
INVARIANTS
  TablesFaithful
  HandlerContext
  ReturnsIntact
CHECK_DEADLOCK FALSE
