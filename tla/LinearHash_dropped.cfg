CONSTANTS
  InitialLevels = {1}
  ENTRIES = 2
  KeyHashes <- MCKeyHashes
  MaxPuts = 6
SPECIFICATION Spec
CHECK_DEADLOCK FALSE
INVARIANTS PutStores
