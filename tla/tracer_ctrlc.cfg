SPECIFICATION FairSpec
CONSTANTS
  Threads = {t1}
  Calls = {c1}
  Sites = {"direct"}
  MaxDepth = 1
  Abandons = FALSE
  Modes = {"attach"}
  Signals = TRUE
  Ends = {"exited"}
  Legible = {"direct"}
  NoCall = NoCall
  NoThread = NoThread
  Symbols <- MCSymbols
  Callee <- MCCallee
  Branches <- MCBranches
  Names <- MCNames
  SyscallName <- MCSyscallName
  Dunder <- MCDunder
  Registry <- MCRegistry
  Filter <- MCFilter
CHECK_DEADLOCK FALSE
PROPERTY InterruptEndsTrace
