SPECIFICATION Spec
CONSTANTS
    Person = {a}
    NoOne = NoOne
    MaxIds = 2
    MaxMessages = 2
    MaxMeetings = 2
    MaxCeremonies = 2
    MaxBlocks = 1
    MaxSpent = 4
    a = a
INVARIANTS
    HistoryStays
    PairedIsSealed
    PairingsAreSound
    FriendIsKnown
CHECK_DEADLOCK FALSE
