SPECIFICATION FairSpec
CONSTANTS
  Threads = {t1}
  Calls = {c1, c2, c3}
  Sites = {"indirect"}
  MaxDepth = 1
  Abandons = FALSE
  Modes = {"spawn", "attach"}
  Signals = TRUE
  Ends = {"exited", "crashed"}
  Legible = {"indirect"}
  NoCall = NoCall
  NoThread = NoThread
  Symbols <- MCSymbols
  Callee <- MCCallee
  Branches <- MCBranches
  Names <- MCNames
  SyscallName <- MCSyscallName
  Dunder <- MCDunder
  Registry <- MCRegistry
  Filter <- MCFilter
CHECK_DEADLOCK FALSE
PROPERTIES KeepsCallLog ImplementsCallLog HitsAreServed EndIsNoticed InterruptEndsBusyTrace
