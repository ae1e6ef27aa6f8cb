CONSTANTS
  k1 = k1
  k2 = k2
  k3 = k3
  d1 = d1
  NULL = NULL
  Keys <- MCKeys
  Data <- MCData
  Hash <- MCHash
  Sizes = {1, 2, 3}
  Thresholds = {6, 10}
  MaxSize = 4
  ULongRange = 65536
SPECIFICATION CSpec
CHECK_DEADLOCK FALSE
INVARIANTS TypeOK EntriesReachable KeysUnique CountMatches InsertFindsRoom
PROPERTIES ImplementsKeyMap
