SPECIFICATION FairSpec
CONSTANTS
    Peer = {mallory}
    MaxContacts = 2
    MaxCalls = 2
    MaxUpsets = 1
INVARIANTS
    RefusedIsOnRecord
    LiftedIsLifted
PROPERTIES
    LessonsAreWritten
CHECK_DEADLOCK FALSE
