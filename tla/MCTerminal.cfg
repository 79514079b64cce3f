SPECIFICATION Spec
CONSTANTS
  VGA_WIDTH = 3
  VGA_HEIGHT = 2
  Chars = {"a", "b"}
  MaxChars = 6
  MaxDots = 2
INVARIANTS
  CursorRecovers
PROPERTIES
  OnScreen
  ImplementsPaper
