SPECIFICATION FairSpec
CONSTANTS
    UiThread = {t1}
    Writes <- ResponderWrites
    MaxUnacked = 2
    MaxAhead = 2
    MaxLinks = 2
    FaultKinds = {"crash", "turn"}
    MaxFaults = 1
    Sightings = {TRUE, FALSE}
PROPERTIES
    OpeningDrains
    
CHECK_DEADLOCK FALSE
