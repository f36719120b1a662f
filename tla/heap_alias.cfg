SPECIFICATION Spec
CONSTANTS
  Kind = "ask"
  PrivateNodes = 3
  IdxSpan = 16
  VaSpan = 8
  Slots = 4
  NoNode = NoNode
  Prices = {1}
  MaxTs = 9
  MaxResets = 1
INVARIANTS SlotsDistinct
