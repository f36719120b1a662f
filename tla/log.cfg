SPECIFICATION FairSpec
CONSTANTS
  N = 2
  LogDepth = 2
  AmtSpan = 4
  Amounts = {3}
  MaxTrades = 2
  Procs = {p1, p2}
  NoProc = NoProc
  PollLimit = 3
  MaxResets = 1
INVARIANTS LogInv BoundedWait ReadsInv
PROPERTIES TradesLogged
