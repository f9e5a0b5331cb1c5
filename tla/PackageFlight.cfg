SPECIFICATION Spec
CONSTANTS
  Requests = {a, b, c}
  Keys = {k1, k2}
  NoLock = NoLock
  MaxBuilds = 1
  Sizes = {1}
  MaxEntries = 2
  MaxBody = 1
  MaxBytes = 2
  Tables = {}
  Rows = {r1}
  MaxTx = 1
  Serialized = TRUE
  DeleteOnly = FALSE
SYMMETRY Symmetric
INVARIANT OneBuildPerKey
PROPERTY ImplementsPromise
CHECK_DEADLOCK FALSE
