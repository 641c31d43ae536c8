CONSTANTS
    t1 = t1
    t2 = t2
    r1 = r1
    r2 = r2
    NumUnits = 1
    Tasks = {t1, t2}
    Runners = {r1, r2}
    RunnerOf <- TwoRunners
    MaxConcurrency = 1
    RunReserve <- Reserve
    Ceiling <- ForTwo
    Usages <- Varied
    MaxFaults = 2
SPECIFICATION Spec
INVARIANTS LedgerBalances UndrainedIsStale
PROPERTIES ClosedOnce SubmittedIsSettled
CHECK_DEADLOCK FALSE
