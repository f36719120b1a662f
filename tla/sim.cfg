SPECIFICATION Spec
CONSTANTS
  Symbols = {A, B}
  NoSymbol = NoSymbol
  NoNode = NoNode
  Prices = {1, 2}
  Amounts = {1, 2}
  Second = 4
  Gaps = {2}
  Clock = 6
  PAGE_SIZE = 2
  MAX_PAGES = 2
  MAX_PAGES_PER_SYMBOL = 2
  OVERFLOW_PAGE_SIZE = 1
  MAX_ORDERS = 5
  FileLimits = {2, 9}
INVARIANTS BooksInv OrdersHavePlaces OrdersAccounted ExitsLate
PROPERTIES ImplementsOrderBook
