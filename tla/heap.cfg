SPECIFICATION Spec
CONSTANTS
  Kind = "bid"
  PrivateNodes = 3
  IdxSpan = 16
  VaSpan = 4
  Slots = 2
  NoNode = NoNode
  Prices = {1, 2}
  MaxTs = 5
  MaxResets = 1
INVARIANTS TypeOK CacheCoherent HeapOrdered RootCached AnswerMatches
PROPERTIES ImplementsPriorityQueue
