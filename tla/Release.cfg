SPECIFICATION Spec
CONSTANTS
    Quota <- MCQuota
    Profiles <- MCProfiles
    Policies <- MCPolicies
    DigestRank <- MCDigestRank
    RunReserve <- MCRunReserve
    PossibleCost = 2
    Manifest <- MCManifest
    ActiveWindow <- MCWindow
    Provenance = {"v1", "v2", "dirty"}
    Clean <- MCClean
    Outcomes <- MCOutcomes
    Drifts <- MCDrifts
    Good <- MCGood
    HumanReview <- MCHumanReview
    Reporter = {r1, r2}
    MaxDrifts = 1
    MaxReads <- MCMaxReads
INVARIANTS LedgerReconciles AlwaysDecidable PlanIsBalanced TraceableIsReviewable GoodRunsPass
PROPERTIES PassIsEarned OneFinalReport
SYMMETRY Interchangeable
CONSTRAINT OneAfterTheOther
CHECK_DEADLOCK FALSE
