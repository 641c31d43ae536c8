----------------------------- MODULE ReleaseGate -----------------------------
(***************************************************************************)
(* The decision that a campaign's records lead to: the report builder's      *)
(* aggregates, the reconciliation of the ledger, the hard violations, the    *)
(* evaluation against the gate policy, and when a decision is final.         *)
(*                                                                           *)
(* An input is the decision input of one campaign:                           *)
(*   policy, intent, maxRuns, ceiling, counts, ledger and clean of the       *)
(*             campaign row,                                                 *)
(*   results   the result rows, each with its unit of the run plan, the      *)
(*             measurement, the settlement and the current source,           *)
(*   reviews   the review of each result, or NoReview.                           *)
(***************************************************************************)
EXTENDS RunCollection, CampaignPlan

CONSTANTS
    RunReserve,     \* [calls, cost] reserved for one run
    PossibleCost    \* charge of a run with calls that may have been billed

TerminalResult == {"COLLECTED", "FAILED"}
SealedResult   == {"COLLECTED", "FAILED", "SKIPPED"}
Controlled     == {"ABORT", "FATAL", "BUDGET", "CALL_CEILING"}
GapReason      == {"FACT_GAPS_REMAIN", "INSUFFICIENT_EVIDENCE", "NO_SUPPORTED_FACTS"}
Criteria       == {"citation_relevance", "source_appropriateness", "freshness",
                   "completeness"}

NoReview       == [verdict |-> None]

Count(S)       == Cardinality(S)

\* Fractions, rounded down to basis points at the very end.
AddFraction(p, q) ==
    IF p[2] = q[2] THEN <<p[1] + q[1], p[2]>>
    ELSE <<p[1] * q[2] + q[1] * p[2], p[2] * q[2]>>
Mean(f(_), S) ==
    LET sum == MapThenFoldSet(AddFraction, <<0, 1>>, f, LAMBDA T : CHOOSE x \in T : TRUE, S)
    IN  IF S = {} THEN <<0, 1>> ELSE <<sum[1], sum[2] * Count(S)>>
Bps(p)         == (p[1] * 10000) \div p[2]
Share(n, d)    == (n * 10000) \div d

\* nearest_rank_percentile of the values of f.
NearestRank(f, percent) ==
    Min({f[i] : i \in {j \in DOMAIN f :
        100 * Count({x \in DOMAIN f : f[x] <= f[j]}) >= percent * Count(DOMAIN f)}})

-----------------------------------------------------------------------------
(***************************************************************************)
(* Selections of result rows.                                                *)
(***************************************************************************)
Indices(in)  == DOMAIN in.results
At(in, i)    == in.results[i]
CaseOf(in, i) == At(in, i).unit.case
TerminalOf(in)  == {i \in Indices(in) : At(in, i).state \in TerminalResult}
Measured(in, mode) == {i \in TerminalOf(in) : At(in, i).m.mode = mode}
UnanswerableOf(in) == {i \in TerminalOf(in) : ~CaseOf(in, i).answerable}
CasesIn(in, S)  == {CaseOf(in, i).id : i \in S}
SelectedOf(in)  == {i \in Indices(in) : At(in, i).unit.selected}
Reviewed(in)    == {i \in SelectedOf(in) : in.reviews[i] # NoReview}
WithVerdict(in, v) == {i \in Reviewed(in) : in.reviews[i].verdict = v}
Scored(in, c)   == {i \in Reviewed(in) : in.reviews[i].score[c] = "PASS"}

\* _coverage: the mean over the cases of the mean over their repetitions.
CoverageOf(in, S) ==
    LET share(i) == LET m == At(in, i).m
                        d == Max({m.facts, m.minFacts})
                    IN  IF d = 0 THEN <<0, 1>> ELSE <<Min({m.covered, d}), d>>
        ofCase(c) == Mean(share, {i \in S : CaseOf(in, i).id = c})
    IN  Bps(Mean(ofCase, CasesIn(in, S)))

\* Mutant: questions without an answer lower the coverage.
CoverageMacroOfAll(in) == CoverageOf(in, TerminalOf(in))

CoverageMacro(in) == CoverageOf(in, TerminalOf(in) \ UnanswerableOf(in))
CoverageStrata(in) ==
    {CoverageOf(in, {i \in TerminalOf(in) \ UnanswerableOf(in) :
                        <<CaseOf(in, i).mode, CaseOf(in, i).locale>> = Strata[n]}) :
        n \in DOMAIN Strata}

\* _gold_macro
Judged(in, i) == {g \in At(in, i).m.gold : g.status \in {"PASS", "FAIL"}}
GoldCases(in) == {i \in TerminalOf(in) : Judged(in, i) # {}}
GoldMacro(in) ==
    LET share(i)  == <<Count({g \in Judged(in, i) : g.status = "PASS"}),
                       Count(Judged(in, i))>>
        ofCase(c) == Mean(share, {i \in GoldCases(in) : CaseOf(in, i).id = c})
    IN  Bps(Mean(ofCase, CasesIn(in, GoldCases(in))))

\* _latencies: a result without a measurement counts as one past the limit.
Timed(in, mode) ==
    {i \in TerminalOf(in) : mode = IF At(in, i).m.mode = None THEN CaseOf(in, i).mode
                                   ELSE At(in, i).m.mode}
LatencyOf(in, mode, i) ==
    IF At(in, i).m.latency = NoTime THEN in.policy.p95[mode] + 1 ELSE At(in, i).m.latency

ExplicitGaps(in) ==
    {i \in UnanswerableOf(in) : /\ At(in, i).m.quality # "COMPLETE"
                                /\ \/ At(in, i).m.gap > 0
                                   \/ At(in, i).m.stop \in GapReason}

Infrastructure(in) ==
    {i \in TerminalOf(in) : \/ At(in, i).class = "INFRASTRUCTURE"
                            \/ "infrastructure_failure" \in At(in, i).signals}

\* What 120 runs would cost at the price of these.
Projected(in) ==
    IF TerminalOf(in) = {} THEN <<0, 1>>
    ELSE <<(in.ledger.cost + in.ledger.possiblyCost) * 120, Count(TerminalOf(in))>>

-----------------------------------------------------------------------------
(***************************************************************************)
(* _ledger_reconciliation: the names of what does not add up.                *)
(***************************************************************************)
CostOf(usage) == usage.tokens
PossiblyCostOf(usage) == IF usage.possibly > 0 THEN PossibleCost ELSE 0

WithReservation(in, s) == {i \in Indices(in) : At(in, i).resv = s}

DerivedCounts(in) ==
    [submitted |-> Count({i \in Indices(in) : At(in, i).run}),
     collected |-> Count({i \in Indices(in) : At(in, i).state = "COLLECTED"}),
     failed    |-> Count({i \in Indices(in) : At(in, i).state = "FAILED"}),
     skipped   |-> Count({i \in Indices(in) : At(in, i).state = "SKIPPED"}),
     degraded  |-> Count({i \in TerminalOf(in) : At(in, i).m.degraded})]

DerivedLedger(in) ==
    LET settled == WithReservation(in, "SETTLED")
        active  == WithReservation(in, "ACTIVE")
        of(f)   == Total(LAMBDA i : At(in, i).used[f], settled)
    IN  [observed |-> of("observed"), possibly |-> of("possibly"),
         tokens |-> of("tokens"), cost |-> of("cost"), possiblyCost |-> of("possiblyCost"),
         reserved |-> Count(active) * RunReserve.calls,
         reservedCost |-> Count(active) * RunReserve.cost,
         possiblyCount |-> Count({i \in settled : \/ At(in, i).used.possibly > 0
                                                  \/ At(in, i).used.possiblyCost > 0})]

\* A submission whose fate is unknown is charged its whole reservation.
UnknownOutbound(r) ==
    /\ r.state = "FAILED" /\ r.calls = 0
    /\ r.used = [observed |-> 0, tokens |-> 0, cost |-> r.used.cost,
                 possibly |-> RunReserve.calls, possiblyCost |-> RunReserve.cost]

\* The settlement of a run agrees with the invocations it has now.
AgreesWithAudit(r) ==
    LET now == Usage(r.source.invocations)
    IN  /\ r.used.observed = now.observed /\ r.used.possibly = now.possibly
        /\ r.used.tokens = now.tokens /\ r.used.cost = CostOf(now)
        /\ r.used.possiblyCost = PossiblyCostOf(now)
        /\ r.calls = now.observed + now.possibly

Orphans(in) ==
    {o \in UNION {{i} \X At(in, i).source.invocations :
                        i \in {j \in TerminalOf(in) : At(in, j).run}} :
        o[2].status \notin TerminalInvocation}

Mismatches(in) ==
    LET counts == DerivedCounts(in)
        ledger == DerivedLedger(in)
    IN  {f \in DOMAIN in.counts : in.counts[f] # counts[f]}
    \cup {f \in DOMAIN in.ledger : in.ledger[f] # ledger[f]}
    \cup {<<i, "settlement">> : i \in {j \in WithReservation(in, "SETTLED") :
            ~(IF At(in, j).run THEN AgreesWithAudit(At(in, j))
                               ELSE UnknownOutbound(At(in, j)))}}
    \cup {<<i, "unsettled">> : i \in {j \in TerminalOf(in) :
            /\ At(in, j).resv # "SETTLED"
            /\ At(in, j).state = "COLLECTED" \/ At(in, j).run}}
    \cup (IF Orphans(in) = {} THEN {} ELSE {"orphans"})

-----------------------------------------------------------------------------
(***************************************************************************)
(* _hard_violations: the kinds that occur.  Identifiers and reason codes are *)
(* always well formed here and an assertion has one result, so that          *)
(* report_structure, gold_audit_mismatch and collector_schema_mismatch never *)
(* occur.                                                                    *)
(***************************************************************************)
\* _source_digests: the source of a collected result is read once more.
Drifted(r) ==
    /\ r.state = "COLLECTED"
    /\ Unreadable(r.source) \/ r.m.digest # Digest(ReadSnapshot(r.source))

HardViolations(in) ==
    LET terminal(P(_)) == \E i \in TerminalOf(in) : P(At(in, i))
    IN  Raises(terminal(LAMBDA r : r.m.untraceable > 0), "citation_traceability")
        \cup Raises(terminal(Drifted), "source_snapshot_mismatch")
        \cup Raises(terminal(LAMBDA r : /\ r.m.quality = "COMPLETE"
                                        /\ r.m.covered = 0 \/ r.m.chains = 0),
                    "complete_without_evidence")
        \cup Raises(terminal(LAMBDA r : r.m.planFailure), "plan_completeness")
        \cup Raises(terminal(LAMBDA r : r.m.polluted > 0), "query_pollution")
        \cup Raises(terminal(LAMBDA r : \/ r.over
                                        \/ "model_call_budget_exceeded" \in r.signals),
                    "model_call_budget")
        \cup Raises(in.ledger.observed + in.ledger.possibly + in.ledger.reserved
                        > in.ceiling.calls, "campaign_call_exposure")
        \cup Raises(Mismatches(in) # {}, "campaign_ledger_mismatch")
        \cup Raises(Orphans(in) # {}, "orphan_started_model_invocation")
        \cup Raises(terminal(LAMBDA r : "submission_payload_mismatch" \in r.signals),
                    "idempotency_payload_mismatch")
        \cup Raises(terminal(LAMBDA r : \E g \in r.m.gold : g.critical /\ g.status = "FAIL"),
                    "critical_gold_assertion")
        \cup Raises(\E i \in Indices(in) : /\ in.reviews[i] # NoReview
                                           /\ in.reviews[i].verdict = "MAJOR_ERROR",
                    "manual_major_error")
        \cup Raises(\E i \in Indices(in) \ SelectedOf(in) : in.reviews[i] # NoReview,
                    "review_binding")
        \cup Raises(terminal(LAMBDA r : r.class = "PERMANENT_CONFIGURATION"),
                    "permanent_configuration")
        \cup Raises(~in.clean, "provenance")

-----------------------------------------------------------------------------
(***************************************************************************)
(* ReleaseGateEvaluator.evaluate.  A decision keeps the rules that failed.   *)
(***************************************************************************)
Failed(holds, rule) == IF holds THEN {} ELSE {rule}

FailedSamples(in) ==
    LET p == in.policy
        enough(n, needed) == IF p.exact THEN n = needed ELSE n >= needed
    IN  Failed(enough(Count(TerminalOf(in)), p.terminal), "terminal_sample")
        \cup Failed(enough(Count(Measured(in, "FAST")), p.fast), "actual_fast_sample")
        \cup Failed(enough(Count(Measured(in, "RESEARCH")), p.research),
                    "actual_research_sample")
        \cup Failed(enough(Count(CasesIn(in, TerminalOf(in))), p.cases),
                    "distinct_case_sample")
        \cup Failed(Count(CasesIn(in, UnanswerableOf(in))) >= p.unCases,
                    "unanswerable_case_sample")
        \cup Failed(Count(UnanswerableOf(in)) >= p.unResults, "unanswerable_run_sample")
        \cup Failed(/\ Count(Reviewed(in)) >= p.reviews
                    /\ WithVerdict(in, "UNREVIEWABLE") = {}, "review_sample")
        \cup Failed(Count(CasesIn(in, GoldCases(in))) >= p.goldCases, "gold_case_sample")

MetricIntegrity(in) ==
    LET p == in.policy
    IN  /\ Count(Timed(in, "FAST")) >= p.fast
        /\ Count(Timed(in, "RESEARCH")) >= p.research
        /\ p.kind = "FULL" =>
            /\ \E i \in TerminalOf(in) : At(in, i).m.mode # None
            /\ GoldCases(in) # {} /\ Reviewed(in) # {} /\ UnanswerableOf(in) # {}

FailedOperations(in) ==
    LET p == in.policy
        ms(mode, i) == LatencyOf(in, mode, i)
        late(mode)  == \E i \in Timed(in, mode) : ms(mode, i) > p.p95[mode]
        p95(mode)   == NearestRank([i \in Timed(in, mode) |-> ms(mode, i)], 95)
    IN  Failed(p95("FAST") <= p.p95["FAST"], "fast_p95_ms")
        \cup Failed(p95("RESEARCH") <= p.p95["RESEARCH"], "research_p95_ms")
        \cup Failed(in.intent # "BUDGET", "cost_stop_not_triggered")
        \cup Failed(in.intent # "CALL_CEILING", "call_ceiling_not_triggered")
        \cup Failed(p.everyDeadline => ~late("FAST") /\ ~late("RESEARCH"),
                    "all_run_deadlines")
        \cup Failed(\/ p.projected < 0
                    \/ Projected(in)[1] <= p.projected * Projected(in)[2],
                    "projected_full_cost")

FailedQuality(in) ==
    LET p == in.policy
        t == Count(TerminalOf(in))
        n == Count(Reviewed(in))
        modes == {i \in TerminalOf(in) : At(in, i).m.mode # None}
        atLeast(f, observed) == Failed(observed >= p.bps[f], f)
        atMost(f, observed)  == Failed(observed <= p.bps[f], f)
    IN  IF p.kind = "SMOKE"
        THEN Failed(Infrastructure(in) = {}, "infrastructure_failure_count")
        ELSE UNION {
              atLeast("mode", Share(Count({i \in modes :
                        CaseOf(in, i).mode = At(in, i).m.mode}), Count(modes))),
              atLeast("coverage", CoverageMacro(in)),
              atLeast("stratum", Min(CoverageStrata(in))),
              atLeast("gold", GoldMacro(in)),
              atLeast("correctness", Share(Count(WithVerdict(in, "CORRECT")), n)),
              atLeast("gap", Share(Count(ExplicitGaps(in)), Count(UnanswerableOf(in)))),
              atMost("degraded",
                Share(Count({i \in TerminalOf(in) : At(in, i).m.degraded}), t)),
              atMost("infrastructure", Share(Count(Infrastructure(in)), t))}
             \cup UNION {atLeast(c, Share(Count(Scored(in, c)), n)) : c \in Criteria}

Decision(status, failed) == [status |-> status, failed |-> failed]

\* What decides before any threshold does.
Findings(in) == [hard |-> HardViolations(in), sample |-> FailedSamples(in)]

Evaluate(in, f, final) ==
    IF f.hard # {} THEN Decision("FAIL", f.hard)
    ELSE IF f.sample # {}
         THEN Decision(IF final THEN "INSUFFICIENT_SAMPLE" ELSE "PENDING", f.sample)
    ELSE IF ~MetricIntegrity(in) THEN Decision("FAIL", {"metric_integrity"})
    ELSE LET failed == FailedOperations(in) \cup FailedQuality(in)
         IN  Decision(IF failed = {} THEN "PASS" ELSE "FAIL", failed)

-----------------------------------------------------------------------------
(***************************************************************************)
(* CampaignReportBuilder.prepare.                                            *)
(***************************************************************************)
NotFinal == "not final"

Sealed(in) ==
    /\ Len(in.results) = in.maxRuns
    /\ \A i \in Indices(in) : At(in, i).state \in SealedResult
    /\ WithReservation(in, "ACTIVE") = {}

\* Mutant: a campaign that has ended must be sealed as well.
FinalizationOfSealed(in, f, status, late) ==
    IF status = "PAUSED" \/ in.intent = "PAUSE" \/ ~Sealed(in) THEN NotFinal
    ELSE IF status \in {"COMPLETED", "ABORTED"} THEN "terminal_campaign"
    ELSE "review_complete"

\* _finalization_state: why the decision is final, in the order of the checks.
FinalizationReason(in, f, status, late) ==
    IF status = "PAUSED" \/ in.intent = "PAUSE" THEN NotFinal
    ELSE IF f.hard # {} THEN "fatal_safety"
    ELSE IF status \in {"COMPLETED", "ABORTED"} THEN "terminal_campaign"
    ELSE IF ~Sealed(in) THEN NotFinal
    ELSE IF f.sample \ {"review_sample"} # {} THEN "sealed_insufficient_sample"
    ELSE IF in.policy.reviews = 0 THEN "operational_gate_complete"
    ELSE IF WithVerdict(in, "UNREVIEWABLE") # {} THEN "unreviewable_sample"
    ELSE IF Count(Reviewed(in)) >= in.policy.reviews THEN "review_complete"
    ELSE IF late THEN "review_deadline_expired"
    ELSE IF in.intent \in Controlled THEN "controlled_stop"
    ELSE NotFinal

\* _automatic_status: a hard violation fails also while the decision is pending.
AutomaticStatus(d, hard) ==
    LET automatic == {r \in d.failed : r \notin {"review_sample", "manual_major_error",
                        "correctness"} \cup Criteria}
    IN  IF automatic = {} THEN "PASS"
        ELSE IF automatic \cap hard = {} /\ d.status \in {"PENDING", "INSUFFICIENT_SAMPLE"}
        THEN d.status ELSE "FAIL"

ManualStatus(in, f, late) ==
    IF in.policy.reviews = 0 THEN "NOT_REQUIRED"
    ELSE IF WithVerdict(in, "UNREVIEWABLE") # {} THEN "INSUFFICIENT_SAMPLE"
    ELSE IF "manual_major_error" \in f.hard THEN "FAIL"
    ELSE IF Count(Reviewed(in)) >= in.policy.reviews THEN "COMPLETE"
    ELSE IF late THEN "INSUFFICIENT_SAMPLE"
    ELSE "PENDING"

Prepare(in, status, late) ==
    LET f      == Findings(in)
        reason == FinalizationReason(in, f, status, late)
        final  == reason # NotFinal
        d      == Evaluate(in, f, final)
        \* A decision that is not final is shown as pending, its rules are kept.
        shown  == IF final THEN d ELSE [d EXCEPT !.status = "PENDING"]
    IN  [reason |-> reason, decision |-> shown,
         automatic |-> AutomaticStatus(shown, f.hard), manual |-> ManualStatus(in, f, late)]
=============================================================================
