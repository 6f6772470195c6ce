SPECIFICATION BleSpec
CONSTANTS
    a = a
    w1 = w1
    w2 = w2
    Phone = {a}
    Me = a
    Others = {1}
    Names = {1, 2}
    Workers = {w1, w2}
    SendWindow = 2
    MaxQueued = 4
    Plans <- Situations
SYMMETRY Symmetry
INVARIANTS
    SilentAfterShutdown
    RadioAsAsked
    CreditComesBack
CHECK_DEADLOCK FALSE
