SPECIFICATION Spec
CONSTANTS
  t1 = t1
  t2 = t2
  t3 = t3
  sA = sA
  sB = sB
  o1 = o1
  o2 = o2
  o3 = o3
  None = None
  Threads = {t1, t2}
  Symbols = {sA, sB}
  Orders = {o1, o2, o3}
  SymbolOf <- MCSymbolOf
  Preloaded = {}
  UnlockedCallers = {}
INVARIANTS AddedIsHeard
