CONSTANTS
  BUCKETS_PER_TABLE = 2
  ASSOCIATIVITY = 2
  MAX_CUCKOO_COUNT = 3
  Keys = {8, 9, 11}
  Values = {40, 48}
  Hash <- MCHash
SPECIFICATION USpec
INVARIANTS TypeOK Placement CountMatches UndoRetraces
PROPERTIES RefusedOnlyWhenFull FailedPutRestores ImplementsPutStore
