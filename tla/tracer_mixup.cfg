SPECIFICATION Spec
CONSTANTS
  Threads = {t1}
  Calls = {c1, c2}
  Sites = {"direct"}
  MaxDepth = 2
  Abandons = FALSE
  Modes = {"spawn"}
  Signals = FALSE
  Ends = {}
  Legible = {"direct"}
  NoCall = NoCall
  NoThread = NoThread
  Symbols <- MCSymbols
  Callee <- MCCallee
  Branches <- MCBranches
  Names <- MCNames
  SyscallName <- MCSyscallName
  Dunder <- MCDunder
  Registry <- MCRegistry
  Filter <- MCFilter
CHECK_DEADLOCK FALSE
INVARIANT ReturnMatchesEntry
