SPECIFICATION FairSpec
CONSTANTS
  a1 = a1
  a2 = a2
  Attempt = {a1, a2}
  Polls = 2
INVARIANTS TombstoneHonest MarkAccounted EvictionSeen
PROPERTIES Retires
\* the child may be gone for good
CHECK_DEADLOCK FALSE
