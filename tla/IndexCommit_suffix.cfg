SPECIFICATION Spec
CONSTANTS
  t1 = t1
  t2 = t2
  s1 = s1
  s2 = s2
  s3 = s3
  r1 = r1
  r2 = r2
  Topic = {t1, t2}
  Saver = {s1}
  Learner = {}
  Rewriter = {r1}
  Old = Old
  None = None
  Attempts = 2
  Cap = 2
  Within <- MCWithinSuffix
  Workspace = TRUE
PROPERTIES OnlyWindowLoses
\* every writer commits once: the system stops when all have ended
CHECK_DEADLOCK FALSE
