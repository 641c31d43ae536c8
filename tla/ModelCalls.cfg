CONSTANTS
    s1 = s1
    Steps = {s1}
    MaxLlmCalls = 4
    MaxRetries = 1
    MaxAttempts = 2
    MaxFaults = 1
SPECIFICATION FairSpec
INVARIANTS BudgetHolds PaidOnce ReuseIsExact
PROPERTIES CallsAreSealed
CHECK_DEADLOCK FALSE
