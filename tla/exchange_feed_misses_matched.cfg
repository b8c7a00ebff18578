SPECIFICATION Spec
CONSTANTS
  alice = alice
  bob = bob
  sA = sA
  sC = sC
  None = None
  Ratio = 2
  Half = 8
  Sessions = {alice}
  Symbols = {sA}
  Listed = {sA}
  AddBooksAsNeeded = FALSE
  Prices = {2}
  Quantities = {1}
  Messages <- MCEverything
  MaxOrders = 2
  KeepOrders = {}
  MaxRequests = 0
CHECK_DEADLOCK FALSE
INVARIANTS FeedTracksOrders
