SPECIFICATION Spec
CONSTANTS
    Lanes = {"a"}
    Homes = {"h"}
    Models = {"fable", "opus"}
    Order <- MCOrder
    Full = 4
    MinHeadroom = 1
    Handicap = 1
    FiveHours = 1
    SevenDays = 2
    TTL = 2
    Fallback = 1
    HomeRest = 1
    AuthRest = 5
    Resets = {0, 2}
    LoginProbes <- MCLoginProbes
    HomeProbes <- MCHomeProbes
    Legacy <- MCLegacy
    MaxTime = 4
    MaxOps = 2
INVARIANTS
    LimitStands
    GatesAgree
    NeverLockedOut
