SPECIFICATION ReaderSpec
CONSTANTS
  alice = alice
  sA = sA
  None = None
  Ratio = 2
  Half = 8
  Sessions = {alice}
  Symbols = {sA}
  Listed = {sA}
  AddBooksAsNeeded = FALSE
  Prices = {7, 9}
  Quantities = {1}
  Messages <- MCEverything
  MaxOrders = 2
  KeepOrders = {}
  MaxRequests = 0
CHECK_DEADLOCK FALSE
INVARIANTS PricesNotUnderstated
