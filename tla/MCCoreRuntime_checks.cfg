SPECIFICATION Spec
CONSTANTS
    Checks = {c1, c2}
    Handles = {}
    Refreshes = {r1}
    MaxTime = 2
    MaxFactAge = 1
    AllowedClockSkew = 0
    Call = Call
    NoFact = NoFact
    NoTime = NoTime
    NoHit = NoHit
    NoRefresh = NoRefresh
    NoAnswer = NoAnswer
INVARIANTS NothingAfterDispose NothingLeftBehind CachedUnderInstalledPolicy
PROPERTIES OnlyDisposalRejects
CHECK_DEADLOCK FALSE
