SPECIFICATION FairSpec
CONSTANTS
  Requests = {a, b}
  Keys = {k1}
  NoLock = NoLock
  MaxBuilds = 1
  Sizes = {1}
  MaxEntries = 2
  MaxBody = 1
  MaxBytes = 2
  Tables = {athletes}
  Rows = {r1}
  MaxTx = 2
  Serialized = TRUE
  DeleteOnly = FALSE
INVARIANT ServedIsCurrent
PROPERTY EveryRequestEnds
CHECK_DEADLOCK FALSE
