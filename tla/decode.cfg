SPECIFICATION Spec
CONSTANTS
  Calls = {"main", "other"}
  Shapes <- MCShapes
  MaxRaw = 3
  BufferCap = 2
  CountCap = 2
CHECK_DEADLOCK FALSE
INVARIANT TypeOK OutputIsWritten NothingOnFailure InputAsPassed SizeIsOwn OutputIsShown
