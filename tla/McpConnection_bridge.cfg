SPECIFICATION Spec
CONSTANTS
  MaxAttempts = 1
  Enabled = TRUE
  Strict = TRUE
  Caps = {"resources"}
  MaxGen = 2
  MaxList = 0
  MaxQueue = 2
INVARIANTS BridgeServed
\* the system stops when it is disposed of
CHECK_DEADLOCK FALSE
