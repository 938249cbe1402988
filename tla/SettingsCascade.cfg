SPECIFICATION FairSpec
CONSTANTS
  n1 = n1
  n2 = n2
  k1 = k1
  k2 = k2
  good = good
  bad = bad
  arr = arr
  w1 = w1
  w2 = w2
  Namespace = {n1}
  Key = {k1, k2}
  Value = {good, bad, arr}
  Invalid = {bad}
  Arrays = {arr}
  Absent = Absent
  Malformed = Malformed
  Unread = Unread
  Writer = {w1, w2}
  Editor = {w2}
  Patch <- Patches
  Reload = Reload
  NoRevision = NoRevision
  InitialFile <- Files
  MaxAttempts = 2
  Source <- OneReport
  Edit <- Edits
  Fragile = {"user"}
  MaxEdits = 2
INVARIANTS Coherent OneWinner DownIsQuiet QueuesMove
PROPERTIES OnlyAskedChanged CallsSettle Follows
CHECK_DEADLOCK FALSE
