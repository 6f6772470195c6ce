SPECIFICATION Spec
CONSTANTS
    Writer = {ui}
    MaxPayload = 6
    MaxFramePayload = 1
    MaxWrites = 3
    MaxPipes = 1
    MaxRefused = 1
INVARIANTS
    RefusedIsRetried
CHECK_DEADLOCK FALSE
