SPECIFICATION Spec
CONSTANTS
    a = a
    b = b
    Phone = {a, b}
    Id = {1, 2, 3}
    Burst = 2
    Plans <- Situations
INVARIANTS
    AirIsKnown
    SessionsFitThePipes
    TapsAreAnswered
PROPERTIES
    HintsCatchUp
    DialsMeet
CHECK_DEADLOCK FALSE
