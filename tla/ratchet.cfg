SPECIFICATION Spec
CONSTANTS
    None = None
    MaxSkip = 2
    MaxSkippedKeys = 2
    MaxNumber = 4
    MaxSeals = 5
INVARIANTS
    StoresAgree
    KeysUsedOnce
    OpenedOnce
    SpentKeysAreGone
    NothingLost
    LossInv
    StoredReadsBack
CHECK_DEADLOCK FALSE
