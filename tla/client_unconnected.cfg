SPECIFICATION ClientSpec
CONSTANTS
  own1 = own1
  own2 = own2
  alice = alice
  bob = bob
  Clients = {own1, own2}
  Sessions <- MCSessions
  MaxConnections = 2
  MaxThreads = 2
CHECK_DEADLOCK FALSE
INVARIANTS ClientNeverCrashes
