CONSTANTS
    a1 = a1
    a2 = a2
    b1 = b1
    c1 = c1
    p1 = p1
    p2 = p2
    s1 = s1
    Searches = {a1, a2, b1, c1}
    TenantOf <- MCTenantOf
    ProviderOf <- MCProviderOf
    GlobalLimit = 2
    TenantLimit = 1
    ProviderLimit = 2
    FailureThreshold = 2
    LockSteps = {s1}
    LockAttempts = 2
SPECIFICATION Spec
INVARIANTS LimitsHold ProbeIsAlone DeadlockNeedsStale
CHECK_DEADLOCK FALSE
