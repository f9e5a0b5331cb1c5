SPECIFICATION Spec
CONSTANTS
  Requests = {a, b}
  Keys = {k1}
  NoLock = NoLock
  MaxBuilds = 1
  Sizes = {1}
  MaxEntries = 2
  MaxBody = 1
  MaxBytes = 2
  Tables = {athletes}
  Rows = {r1}
  MaxTx = 3
  Serialized = TRUE
  DeleteOnly = TRUE
SYMMETRY Symmetric
INVARIANT ServedIsCurrent
CHECK_DEADLOCK FALSE
