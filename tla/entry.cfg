SPECIFICATION FairSpec
CONSTANTS
  a = a
  b = b
  Lanes = {1, 2}
  NumLanes = 2
  Orders = {a, b}
  NoOrder = NoOrder
  Depth = 3
  Sources <- FullOrShort
  Rush = {"KEY2"}
INVARIANTS StorageInv TradeDoneComplete LostAtMostOne
PROPERTIES SessionEnds
