SPECIFICATION FairSpec
CONSTANTS
  c1 = c1
  c2 = c2
  c3 = c3
  c4 = c4
  p1 = p1
  p2 = p2
  NoCall = NoCall
  Call = {c1, c2, c3, c4}
  Parent = {p1, p2}
  ParentOf <- MCParentOf
INVARIANT NoStaleTail
PROPERTY ImplementsLease
\* every call is made once
CHECK_DEADLOCK FALSE
