CONSTANTS
    q1 = q1
    q2 = q2
    s1 = s1
    s2 = s2
    w1 = w1
    w2 = w2
    Queries = {q1, q2}
    Sources = {s1, s2}
    HitsOf <- AllHits
    Mode = "FAST"
    Direct <- AllDirect
    FactsOf <- OwnFact
    RequiredFacts = {s1}
    Workers = {w1, w2}
    LeaseSeconds = 1
    SoftDeadline = 2
    HardDeadline = 2
    SynthesisReserve = 1
    MaxAttempts = 2
    FetchMaxAttempts = 1
    RetryBase = 1
    RetryMax = 2
    Grace = 1
    MaxTime = 2
    MaxFaults = 0
    MaxCandidates = 1
SPECIFICATION Spec
INVARIANTS NoStrandedRun JoinsAreComplete InputsAreCurrent
PROPERTIES KeepsContract
CHECK_DEADLOCK FALSE
