SPECIFICATION Spec
CONSTANTS
    UiThread = {t1}
    Writes <- ThreeWrites
    MaxUnacked = 2
    MaxAhead = 2
    MaxLinks = 2
    FaultKinds = {"crash"}
    MaxFaults = 1
    Sightings = {TRUE, FALSE}
INVARIANTS
    NumbersUsedOnce
    AckMeansStored
    InboxMatchesRows
PROPERTIES
    KeepsPromise
CHECK_DEADLOCK FALSE
