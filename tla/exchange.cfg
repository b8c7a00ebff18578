SPECIFICATION FairSpec
CONSTANTS
  alice = alice
  bob = bob
  sA = sA
  sC = sC
  None = None
  Ratio = 2
  Half = 8
  Sessions = {alice, bob}
  Symbols = {sA, sC}
  Listed = {sA}
  AddBooksAsNeeded = FALSE
  Prices = {2, 4}
  Quantities = {0, 1, 2}
  Messages <- MCTrading
  MaxOrders = 2
  KeepOrders = {1, 2}
  MaxRequests = 1
CHECK_DEADLOCK FALSE
INVARIANTS TypeOK HistoryLegal SharesBalance ClientKnows AnnouncedFirst ExecIdsUnique
PROPERTIES EveryOrderSettles LostSessionsEnd
