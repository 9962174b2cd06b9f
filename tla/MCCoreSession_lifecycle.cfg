SPECIFICATION Spec
CONSTANTS
    Payloads <- MCPayloads
    TrustScope = "prod"
    MaxBundleAgeSec = 2
    AllowedClockSkew = 1
    MsPerSec = 1
    MaxSafeInteger = 2
    NoExpiry = NoExpiry
    MaxGeneration = 2
    NoPolicy = NoPolicy
    MaxRefreshId = 2
    MaxPlanId = 3
    MaxPendingPlans = 2
    MaxPlanCalls = 2
    MaxActionNodes = 2
    PlanTtl = 1
    MaxFactAge = 1
    Calls = {0, 1}
    Requests <- MCTwoRequests
    Planned <- MCPlanned
    FactBatches <- MCOneBatch
    NoReply = NoReply
CHECK_DEADLOCK FALSE
INVARIANTS
    RefreshMatchesStore
    PlanAccounting
PROPERTIES
    OneJudgementPerPlan
    RefinesAuthority
