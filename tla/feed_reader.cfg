SPECIFICATION ReaderSpec
CONSTANTS
  alice = alice
  sA = sA
  None = None
  Ratio = 2
  Half = 8
  Sessions = {alice}
  Symbols = {sA}
  Listed = {sA}
  AddBooksAsNeeded = FALSE
  Prices = {4, 6, 7, 9}
  Quantities = {0, 1, 2}
  Messages <- MCReading
  MaxOrders = 3
  KeepOrders = {1}
  MaxRequests = 1
CHECK_DEADLOCK FALSE
INVARIANTS SpreadKnown SmallPricesNotUnderstated AddsCounted
INVARIANTS LeavesAgree  
