SPECIFICATION Spec
CONSTANTS
    Payloads <- MCPayloads
    TrustScope = "prod"
    MaxBundleAgeSec = 3
    AllowedClockSkew = 1
    MsPerSec = 1
    MaxSafeInteger = 4
    NoExpiry = NoExpiry
    MaxGeneration = 1
    NoPolicy = NoPolicy
    MaxRefreshId = 1
    MaxPlanId = 1
    MaxPendingPlans = 1
    MaxPlanCalls = 2
    MaxActionNodes = 2
    PlanTtl = 2
    MaxFactAge = 1
    Calls = {0, 1}
    Requests <- MCRequests
    Planned <- MCPlanned
    FactBatches <- MCBatches
    NoReply = NoReply
CHECK_DEADLOCK FALSE
INVARIANTS
    EvaluatedIsSound
    PinnedPolicy
    FailClosed
