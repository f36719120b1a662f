SPECIFICATION FairSpec
CONSTANTS
  Kind = "ask"
  PrivateNodes = 3
  IdxSpan = 16
  VaSpan = 4
  Slots = 1
  NoNode = NoNode
  Prices = {1, 2}
  MaxTs = 5
  MaxResets = 0
PROPERTIES CommandCompletes
