SPECIFICATION FairSpec
CONSTANTS
  t1 = t1
  t2 = t2
  b1 = b1
  b2 = b2
  None = None
  Threads = {t1, t2}
  Books = {b1, b2}
  Day = 2
  Width = 8
  Horizon = 4
  MaxSetBacks = 1
INVARIANTS StampsValid
PROPERTIES StampsInOrder CallsReturn
CHECK_DEADLOCK FALSE
