SPECIFICATION Spec
CONSTANTS
    Payloads <- MCPayloads
    TrustScope = "prod"
    MaxBundleAgeSec = 2
    AllowedClockSkew = 1
    MsPerSec = 2
    MaxSafeInteger = 4
    NoExpiry = NoExpiry
    MaxGeneration = 2
    MaxPrepared = 2
    ThisStore = this
    OtherStore = other
    NoPolicy = NoPolicy
CHECK_DEADLOCK FALSE
INVARIANTS
    InstallsOrdered
    FreshWhenActivated
PROPERTIES
    OnlyLatestBegunActivates
    RefinesAuthority
