SPECIFICATION Spec
CONSTANTS
  Threads = {t1}
  Calls = {c1, c2, c3}
  Sites = {"direct", "indirect"}
  MaxDepth = 2
  Abandons = TRUE
  Modes = {"attach"}
  Signals = TRUE
  Ends = {}
  Legible = {"direct", "indirect"}
  NoCall = NoCall
  NoThread = NoThread
  Symbols <- MCSymbols
  Callee <- MCCallee
  Branches <- MCBranches
  Names <- MCNames
  SyscallName <- MCSyscallName
  Dunder <- MCDunder
  Registry <- MCRegistry
  Filter <- MCFilter
CHECK_DEADLOCK FALSE
SYMMETRY CallSymmetry
INVARIANT PendingOwned ReturnsFromOwnThread OneEventPerReturn LostOnlyIfExcused
PROPERTY PendingLeftToItsThread
