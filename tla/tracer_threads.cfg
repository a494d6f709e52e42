SPECIFICATION Spec
CONSTANTS
  Threads = {t1, t2}
  Calls = {c1, c2, c3}
  Sites = {"direct", "indirect", "opaque"}
  MaxDepth = 1
  Abandons = FALSE
  Modes = {"spawn"}
  Signals = FALSE
  Ends = {}
  Legible = {"direct", "indirect"}
  NoCall = NoCall
  NoThread = NoThread
  Symbols <- MCSymbols
  Callee <- MCCallee
  Branches <- MCBranches
  Names <- MCNames
  SyscallName <- MCSyscallName
  Dunder <- MCDunder
  Registry <- MCRegistry
  Filter <- MCFilter
CHECK_DEADLOCK FALSE
SYMMETRY Symmetry
INVARIANT TypeOK PendingOwned ReturnsFromOwnThread OneEventPerCall LostOnlyIfExcused
PROPERTY PendingLeftToItsThread
