SPECIFICATION FairSpec
CONSTANTS
  s1 = s1
  s2 = s2
  o1 = o1
  o2 = o2
  o3 = o3
  b1 = b1
  b2 = b2
  None = None
  Sessions = {s1, s2}
  Orders = {o1, o2, o3}
  Books = {b1, b2}
INVARIANTS TypeOK MisusedAfterOverlap LinksAgree
PROPERTIES KeepsLinks CallsEnd
CHECK_DEADLOCK FALSE
