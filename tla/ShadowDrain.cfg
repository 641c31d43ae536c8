CONSTANTS
    t1 = t1
    t2 = t2
    r1 = r1
    r2 = r2
    NumUnits = 2
    Tasks = {t1, t2}
    Runners = {r1}
    RunnerOf <- OneRunner
    MaxConcurrency = 2
    RunReserve <- Reserve
    Ceiling <- ForOne
    Usages <- Varied
    MaxFaults = 0
SPECIFICATION FairSpec
INVARIANTS NeverOversold
PROPERTIES StopDrains
CHECK_DEADLOCK FALSE
