SPECIFICATION FairSpec
CONSTANTS
    Latest = 2
    MaxWipes = 2
    MaxRenames = 1
    MaxFaults = 4
INVARIANTS
    WipedIsGone
    KeptUntilAsked
PROPERTIES
    WipesFinish
CHECK_DEADLOCK FALSE
