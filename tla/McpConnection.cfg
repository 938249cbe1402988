SPECIFICATION FairSpec
CONSTANTS
  MaxAttempts = 1
  Enabled = TRUE
  Strict = TRUE
  Caps = {"resources", "prompts"}
  MaxGen = 4
  MaxList = 1
  MaxQueue = 2
INVARIANTS NoOverlap Budget StopsClean NothingLeaked ToolsFresh
PROPERTIES Ends
\* the system stops when it is disposed of
CHECK_DEADLOCK FALSE
