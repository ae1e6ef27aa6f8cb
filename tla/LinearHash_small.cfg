CONSTANTS
  InitialLevels = {0, 1, 2}
  ENTRIES = 2
  KeyHashes <- MCKeyHashes
  MaxPuts = 7
SPECIFICATION Spec
CHECK_DEADLOCK FALSE
INVARIANTS TypeOK HashedPlacement NothingLost PutAccounts
PROPERTIES SplitMoves
