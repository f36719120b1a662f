SPECIFICATION DispFairSpec
CONSTANTS
  Lanes = {l1, l2}
  Orders = {a, b}
  NoOrder = NoOrder
  Depth = 2
INVARIANTS WritesFit TakenInOrder DoneMeansDispatched
PROPERTIES OfferStable DispatchEnds
