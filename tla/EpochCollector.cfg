SPECIFICATION FairSpec
CONSTANTS
  c1 = c1
  c2 = c2
  Call = {c1, c2}
  MaxEpoch = 2
INVARIANTS WatchesMatch AccountedOnce OnlyCollectedDropped
PROPERTIES CallEnds
