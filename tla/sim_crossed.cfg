SPECIFICATION Spec
CONSTANTS
  Prices = {1, 2}
  Amounts = {1, 2}
  Second = 4
  Gaps = {1, 3}
  MAX_ORDERS = 4
INVARIANTS UncrossedBetweenOrders
