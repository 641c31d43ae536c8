-------------------------- MODULE MCReleaseProcess --------------------------
(***************************************************************************)
(* A release of eight cases (one answerable and one unanswerable of each     *)
(* stratum), two of them in the smoke campaign, each run five times in the   *)
(* full one.  The last answerable FAST unit of a campaign can end in every way      *)
(* that the collector tells apart; the others end well.                      *)
(***************************************************************************)
EXTENDS ReleaseProcess, TLC

Interchangeable == Permutations(Reporter)

MCQuota == [cases |-> 8, perMode |-> 4, perStratum |-> 2, answerable |-> 1,
            deterministic |-> 1, unanswerable |-> 4, regressions |-> 1,
            smoke |-> 2, smokePerMode |-> 1]

MCProfiles ==
    [SMOKE |-> [maxRuns |-> 2, repetitions |-> 1, structural |-> 16,
                ceiling |-> [calls |-> 16, cost |-> 20]],
     FULL  |-> [maxRuns |-> 40, repetitions |-> 5, structural |-> 320,
                ceiling |-> [calls |-> 47, cost |-> 60]]]

\* SHADOW_FULL_GATE_V2: of the runs of a campaign one in six may be missing, and
\* one, but not two, may be lost to the infrastructure.
FullShares == [mode |-> 9500, coverage |-> 8000, stratum |-> 7000, gold |-> 9500,
               correctness |-> 9000, citation_relevance |-> 9500,
               source_appropriateness |-> 9500, freshness |-> 9500,
               completeness |-> 9000, gap |-> 10000, degraded |-> 1000,
               infrastructure |-> 300]
SmokeShares == [f \in Shares |-> IF f = "degraded" THEN 10000 ELSE 0]
MCPolicies ==
    [SMOKE |-> [kind |-> "SMOKE", terminal |-> 2, fast |-> 1, research |-> 1, cases |-> 2,
                unCases |-> 1, unResults |-> 1, reviews |-> 0, goldCases |-> 0,
                exact |-> TRUE, everyDeadline |-> TRUE, projected |-> 400,
                p95 |-> [FAST |-> 10, RESEARCH |-> 10], bps |-> SmokeShares],
     FULL  |-> [kind |-> "FULL", terminal |-> 34, fast |-> 17, research |-> 17, cases |-> 8,
                unCases |-> 4, unResults |-> 17, reviews |-> 4, goldCases |-> 4,
                exact |-> FALSE, everyDeadline |-> FALSE, projected |-> -1,
                p95 |-> [FAST |-> 10, RESEARCH |-> 10], bps |-> FullShares]]

MCRunReserve == [calls |-> 8, cost |-> 9]
MCDigestRank == [u \in (1..8) \X (1..5) |-> ((u[1] + 8 * u[2]) * 3) % 47]
MCWindow     == 0..20
MCMaxReads   == [SMOKE |-> 2, FULL |-> 1]

CaseNo(n) ==
    LET stratum    == Strata[((n - 1) % 4) + 1]
        answerable == n > 4
    IN  [id |-> n, mode |-> stratum[1], locale |-> stratum[2], minFacts |-> 1,
         answerable |-> answerable, mustNotComplete |-> ~answerable,
         sources |-> IF answerable THEN {"OFFICIAL"} ELSE {}, forbidden |-> {"gossip"},
         gold |-> IF answerable
                  THEN {[id |-> 1, critical |-> TRUE, operator |-> "normalized_contains_all",
                         expected |-> {"answer"}]} ELSE {},
         window |-> MCWindow, oracle |-> IF answerable THEN "deterministic" ELSE "not_applicable",
         regression |-> n = 7, smoke |-> n \in {2, 7}]
MCManifest == {CaseNo(n) : n \in 1..8}

Call(n, status, billing) ==
    [id |-> n, step |-> 1, attempt |-> 1, status |-> status, billing |-> billing,
     called |-> TRUE, tokens |-> IF billing = "BILLED" THEN 1 ELSE 0,
     done |-> status # "STARTED", error |-> None]

Flawless(case) ==
    [status |-> "SUCCEEDED", quality |-> IF case.answerable THEN "COMPLETE" ELSE "NONE",
     stop |-> IF case.answerable THEN None ELSE "INSUFFICIENT_EVIDENCE",
     mode |-> case.mode, created |-> 0, deadline |-> 10, completed |-> 5,
     response |-> "SUCCEEDED", output |-> 1, messages |-> {[id |-> 1, role |-> "assistant"]},
     budget |-> ModelLimit[case.mode], recordedCalls |-> 1, recordedTokens |-> 1,
     facts |-> {[id |-> 1, required |-> TRUE,
                 status |-> IF case.answerable THEN "VERIFIED" ELSE "OPEN"]},
     queries |-> {[id |-> 1, fact |-> 1, terms |-> {"topic"}]},
     providers |-> {[id |-> 1, query |-> 1, status |-> "SUCCEEDED", done |-> TRUE,
                     error |-> None]},
     steps |-> {[id |-> 1, status |-> "SUCCEEDED", bound |-> TRUE]},
     attempts |-> {[id |-> 1, step |-> 1, done |-> TRUE, error |-> None]},
     invocations |-> {Call(1, "COMPLETED", "BILLED")},
     verified |-> {[id |-> 1, candidate |-> 1, verdict |-> "ACCEPTED"]},
     candidates |-> {[id |-> 1, fact |-> 1, span |-> 1, version |-> 1, quote |-> "q",
                      authority |-> "OFFICIAL"]},
     chunks |-> {[id |-> 1, version |-> 1, text |-> "q"]},
     fetches |-> {[version |-> 1, status |-> "SUCCEEDED"]},
     claims |-> IF case.answerable
                THEN {[id |-> 1, kind |-> "FACTUAL", fact |-> 1, text |-> {"answer"}]} ELSE {},
     citations |-> IF case.answerable
                   THEN {[id |-> 1, claim |-> 1, evidence |-> 1, span |-> 1, quote |-> "q"]}
                   ELSE {},
     outbox |-> {[id |-> 1, published |-> TRUE]}]

WithCalls(s, calls) ==
    [s EXCEPT !.invocations = calls, !.recordedCalls = Cardinality(calls),
              !.recordedTokens = Tokens(calls)]

Flawed(s, flaw) ==
    CASE flaw = "wrong fact"  ->
            [s EXCEPT !.facts = @ \cup {[id |-> 2, required |-> FALSE, status |-> "OPEN"]},
                      !.candidates = {[c EXCEPT !.fact = 2] : c \in @}]
      [] flaw = "polluted"    -> [s EXCEPT !.queries = {[q EXCEPT !.terms = {"gossip"}] : q \in @}]
      [] flaw = "greedy"      -> WithCalls(s, {Call(n, "COMPLETED", "BILLED") : n \in 1..5})
      [] flaw = "exceeding"   -> WithCalls(s, {Call(n, "COMPLETED", "BILLED") : n \in 1..9})
      [] flaw = "maybe"       -> WithCalls(s, {Call(1, "COMPLETED", "BILLED"),
                                               Call(2, "ABANDONED", "POSSIBLY_BILLED")})
      [] flaw = "open call"   -> WithCalls(s, {Call(1, "STARTED", "POSSIBLY_BILLED")})
      [] flaw = "bad billing" -> WithCalls(s, {Call(1, "FAILED", "BILLED")})
      [] flaw = "no answer"   ->
            [s EXCEPT !.status = "FAILED", !.quality = "NONE", !.stop = "PROVIDER_FAILURE",
                      !.claims = {}, !.citations = {}, !.response = "FAILED", !.output = 0]
      [] flaw = "misquote"    -> [s EXCEPT !.citations = {[x EXCEPT !.quote = "p"] : x \in @}]
      [] flaw = "unfetched"   -> [s EXCEPT !.fetches = {[f EXCEPT !.status = "FAILED"] : f \in @}]
      [] flaw = "late"        -> [s EXCEPT !.completed = 12]

\* Flaws that one campaign shows need not be repeated in the other.
MCFlaws == [SMOKE |-> {"wrong fact", "polluted", "greedy", "exceeding", "bad billing", "late"},
            FULL  |-> {"misquote", "unfetched", "maybe", "open call", "no answer"}]

MCGood(r) == r.source = Flawless(r.unit.case)
MCOutcomes(k, unit) ==
    {Flawless(unit.case)} \cup
    IF unit.case.id = 7 /\ unit.repetition = Profiles[k].repetitions
    THEN {Flawed(Flawless(unit.case), f) : f \in MCFlaws[k]} ELSE {}

\* Open calls are given up by the reconciler, evidence of a run is withdrawn.
MCDrifts(s) ==
    IF \E i \in s.invocations : i.status = "STARTED"
    THEN {[s EXCEPT !.invocations = {[i EXCEPT !.status = "ABANDONED", !.done = TRUE] : i \in @}]}
    ELSE IF Cardinality(s.invocations) = 2
    THEN {[s EXCEPT !.verified = {[v EXCEPT !.verdict = "REJECTED"] : v \in @}],
          [s EXCEPT !.candidates = {}]}
    ELSE {}

Judgement(verdict) == [verdict |-> verdict, score |-> [c \in Criteria |-> "PASS"]]
MCHumanReview == {Judgement("CORRECT"), Judgement("MAJOR_ERROR")}
MCClean(p)    == p # "dirty"

\* One reporter has ended a flawless smoke campaign when the full one begins; only
\* one candidate has a full campaign, which is stopped at three points: too early
\* for its sample, and with one unit and none left, where it may be paused as well.
\* The other candidates have a smoke campaign that no one stops.  A report of the
\* full campaign that has become stale, which can only be given up, is not followed,
\* and neither is a review after one that found a major error.
OneAfterTheOther ==
    /\ camp["SMOKE"].prov \in {"v2", "dirty"} => camp["SMOKE"].intent = "NONE"
    /\ camp["FULL"].status # "ABSENT" =>
        LET pending == Cardinality(InState("FULL", "PENDING"))
        IN  /\ camp["FULL"].prov = "v1" /\ reads["SMOKE"] = 1
            /\ \A p \in Reporter : reporter[p].k # "SMOKE" /\
                    (reporter[p].k = "FULL" => reporter[p].fresh)
            /\ \A i \in DOMAIN rows["SMOKE"] : Good(rows["SMOKE"][i])
            /\ \A i \in ToReview("FULL") : \A j \in DOMAIN rows["FULL"] :
                    reviews["FULL"][j] # Judgement("MAJOR_ERROR")
            /\ camp["FULL"].intent # "NONE" =>
                    pending \in {0, 1} \cup IF camp["FULL"].intent = "PAUSE" THEN {} ELSE {7}
=============================================================================
