SPECIFICATION FairSpec
CONSTANTS
  a = a
  b = b
  Lanes = {1, 2}
  NumLanes = 2
  Orders = {a, b}
  NoOrder = NoOrder
  Depth = 2
  Sources <- Uneven
  Rush = {}
PROPERTIES WriteEnds
