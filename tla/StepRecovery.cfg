CONSTANTS
    q1 = q1
    q2 = q2
    s1 = s1
    s2 = s2
    w1 = w1
    w2 = w2
    Queries = {}
    Sources = {}
    HitsOf <- AllHits
    Mode = "FAST"
    Direct <- AllDirect
    FactsOf <- OwnFact
    RequiredFacts = {s1}
    Workers = {w1, w2}
    LeaseSeconds = 2
    SoftDeadline = 4
    HardDeadline = 4
    SynthesisReserve = 1
    MaxAttempts = 2
    FetchMaxAttempts = 1
    RetryBase = 1
    RetryMax = 2
    Grace = 0
    MaxTime = 4
    MaxFaults = 2
    MaxCandidates = 1
SPECIFICATION FairSpec
INVARIANTS ExclusiveAttempt AttemptsArePaced
PROPERTIES StaleWorkerIsHarmless RunEnds KeepsContract
CHECK_DEADLOCK FALSE
