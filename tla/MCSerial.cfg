SPECIFICATION SerialFairSpec
CONSTANTS
  a = a
  b = b
  c = c
  d = d
  NEWLINE = NEWLINE
  RETURN = RETURN
  DOT = DOT
  Char <- Chars
  str <- Line
  data <- Async
  FirmwareIER = {{}, {1}}
  FifoSize = 3
  MaxDots = 3
INVARIANTS
  LineCarriesText
PROPERTIES
  AllSent
CHECK_DEADLOCK FALSE
