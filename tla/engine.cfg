SPECIFICATION FairSpec
CONSTANTS
  PrivateNodes = 3
  IdxSpan = 16
  VaSpan = 4
  Slots = 4
  NoNode = NoNode
  Prices = {1, 2}
  Amounts = {1, 2}
  MaxOrders = 5
  TsSpan = 8
  Starts = {5}
  Gaps = {1}
INVARIANTS ControlInv UncrossedWhenIdle
PROPERTIES ImplementsOrderBook OrderCompletes
