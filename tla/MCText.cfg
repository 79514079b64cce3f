SPECIFICATION TextSpec
CONSTANTS
  BITS = 8
  buffer_size = 4
  Formats <- AllFormats
  Strings <- TwoStrings
  SomeInts <- TwoInts
  SomeUInts = {0, 171}
INVARIANTS
  NumeralsRight
  LargerReadsLarger
  FitsBuffer
  CutExpansion
CHECK_DEADLOCK FALSE
