SPECIFICATION FairSpec
CONSTANTS
    Homes = {h1}
    Starting = {"dead"}
    Spacing = 1
    Realert = 1
    Daily = 1
    MaxChanges = 2
    MaxFaults = 1
INVARIANTS
    TypeOK
    AlertsSpaced
    
    HealsSpaced
PROPERTIES
    ExpiredHealed
    DeadTold
CHECK_DEADLOCK FALSE
