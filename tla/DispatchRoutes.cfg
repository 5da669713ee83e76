SPECIFICATION FairSpec
CONSTANTS
    Lanes = {"a", "b"}
    Homes = {"g", "h"}
    Models = {"opus", "fable"}
    Order <- MCOrder
    Full = 10
    MinHeadroom = 1
    Handicap = 2
    Doors = {1}
    Requests <- MCRequests
    Fleets <- MCFleets
    CapRatio = 2
    MinSlack = 1
    MaxAttempts = 3
    MaxRetries = 2
    CodexFailures = {1, 4}
    MaxOthers = 1
INVARIANTS
    RefusedOnce
    PinsKept
PROPERTIES
    NeverDownTier
    EveryDispatchEnds
CHECK_DEADLOCK FALSE
