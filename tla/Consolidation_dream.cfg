SPECIFICATION FairSpec
CONSTANTS
  p1 = p1
  p2 = p2
  d1 = d1
  d2 = d2
  s1 = s1
  NoPid = NoPid
  Proc = {p1, p2}
  Dream = {d1, d2}
  ProcOf <- MCTwo
  Saver = {s1}
  Stale = 1
  Cooldown = 1
  MinAge = 1
  MinJob = 0
  MaxTime = 2
  Fragile = {d2, s1}
INVARIANTS EpochHonest BusyIsLaunch
PROPERTIES HolderUndisturbed ArmServed LateArmSurvives DreamEnds
VIEW MCView
\* every dream runs once: the system stops when all have ended
CHECK_DEADLOCK FALSE
