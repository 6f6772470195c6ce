SPECIFICATION LanSpec
CONSTANTS
    a = a
    b = b
    Phone = {a, b}
    Id = {1, 2, 3}
    Owner <- MCOwner
    MaxPending = 1
    Plans <- Situations
INVARIANTS
    BytesOnlyOnOpenPipe
    OneSurvives
PROPERTIES
    DeadEndsClose
CHECK_DEADLOCK FALSE
