SPECIFICATION Spec
CONSTANTS
    a = a
    b = b
    c = c
    Phone = {a, b, c}
    Casts <- Either
    MaxCodes = 1
    MaxCeremonies = 2
SYMMETRY Alike
INVARIANTS
    NoIdentityWithoutBoth
    PairedTogether
    OneAnswerAtATime
CHECK_DEADLOCK FALSE
