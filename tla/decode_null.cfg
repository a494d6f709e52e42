SPECIFICATION Spec
CONSTANTS
  Calls = {"main"}
  Shapes <- OnlyWritev
  MaxRaw = 3
  BufferCap = 2
  CountCap = 2
CHECK_DEADLOCK FALSE
INVARIANT DecodingNeverRaises
