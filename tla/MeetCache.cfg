SPECIFICATION CacheSpec
CONSTANTS
  Tables = {athletes}
  Rows = {r1, r2}
  MaxTx = 4
  Serialized = TRUE
  DeleteOnly = TRUE
  MaxEntries = 2
  MaxBody = 2
  MaxBytes = 3
  Keys = {k1, k2, k3}
  Sizes = {0, 1, 2, 3}
INVARIANTS
  HitsAreCurrent
  WithinLimits
PROPERTIES
  EveryWriteChangesStamp
  EvictsOnlyForRoom
CHECK_DEADLOCK FALSE
