SPECIFICATION FairSpec
CONSTANTS
    Checks = {c1}
    Handles = {h1}
    Refreshes = {r1, r2}
    MaxTime = 0
    MaxFactAge = 1
    AllowedClockSkew = 0
    Call = Call
    NoFact = NoFact
    NoTime = NoTime
    NoHit = NoHit
    NoRefresh = NoRefresh
    NoAnswer = NoAnswer
INVARIANT ReleasedOnce
PROPERTIES LatestRefreshInstalls CallsEnd InterruptionHonoured
CHECK_DEADLOCK FALSE
