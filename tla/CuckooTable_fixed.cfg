CONSTANTS
  BUCKETS_PER_TABLE = 2
  ASSOCIATIVITY = 1
  MAX_CUCKOO_COUNT = 2
  Keys = {8, 9, 10}
  Values = {40}
  Hash <- MCHash
SPECIFICATION TableSpec
CHECK_DEADLOCK FALSE
PROPERTIES FixedTableIsImmutable
