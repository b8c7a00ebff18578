SPECIFICATION Spec
CONSTANTS
  alice = alice
  bob = bob
  carol = carol
  Clients = {alice, bob}
  MaxConnections = 2
  MaxThreads = 3
CHECK_DEADLOCK FALSE
INVARIANTS JoinsAllThreads
