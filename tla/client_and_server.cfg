SPECIFICATION ClientFairSpec
CONSTANTS
  own1 = own1
  own2 = own2
  alice = alice
  bob = bob
  Clients = {own1, own2, alice}
  Sessions <- MCSessions
  MaxConnections = 2
  MaxThreads = 3
CHECK_DEADLOCK FALSE
INVARIANTS ClientTypeOK JoinsEarlierThreads UsesLiveServer NoThreadOutlives
PROPERTIES LoginSeen ClientEnds VenueShutsDown ClientsServed
