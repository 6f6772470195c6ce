SPECIFICATION MCSpec
CONSTANTS
    Writer = {ui, pump}
    MaxPayload = 6
    MaxFramePayload = 1
    MaxWrites = 3
    MaxPipes = 2
    MaxRefused = 1
    KeyLen = 2
    NonceLen = 2
    MaxHint = 2
    MaxUri = 64
    Byte = {0, 255}
    Letter <- Letters
INVARIANTS
    WrittenIsHeard
    GoodFaithIsEnough
    CodesReadBack
CHECK_DEADLOCK FALSE
