--------------------------- MODULE ReleaseProcess ---------------------------
(***************************************************************************)
(* A release: the smoke campaign and the full campaign of one candidate,     *)
(* from their creation over the collection and the review of their runs to   *)
(* the final report that is bound to each.                                   *)
(*                                                                           *)
(* ShadowCampaign has the concurrency of runners and the admission of runs;  *)
(* here the units of a campaign run one at a time, so that the content of    *)
(* what they leave behind can be followed into the decision.  A row of a     *)
(* result keeps, as `source', what the candidate's tables say of its run     *)
(* now; the collector and every report read it at their own time.            *)
(*                                                                           *)
(* `fresh' of a report in preparation says that campaign.version is still    *)
(* the one that was read: every write that increments it clears the flag.    *)
(***************************************************************************)
EXTENDS ReleaseGate

CONSTANTS
    Manifest,       \* the cases
    ActiveWindow,   \* the times in which a campaign may run
    Provenance,     \* candidates and harnesses that a campaign can be made for
    Clean(_),       \* both source trees of a provenance are clean
    Outcomes(_, _), \* the sources that <<campaign, unit>> can leave behind
    Drifts(_),      \* what a source can become later
    Good(_),        \* the result row has the source of a flawless run
    HumanReview,    \* the reviews that the owner may submit
    Reporter,       \* processes that generate a report
    MaxReads,       \* bound on the reports begun of a campaign
    MaxDrifts       \* bound on changes of sources after the end of their run

ASSUME ManifestAssumption ==
    /\ IsFiniteSet(Manifest) /\ ValidManifest(Manifest, ActiveWindow)
    /\ \A k \in Kind : ValidProfile(Profiles[k]) /\ ValidPolicy(Policies[k])

\* The locked catalogue: only a full campaign is reviewed, and a gate without
\* reviews asks for every run.
ASSUME CatalogAssumption ==
    /\ Policies["SMOKE"].reviews = 0
    /\ \A k \in Kind : Policies[k].reviews = 0 =>
        Policies[k].fast + Policies[k].research = Profiles[k].maxRuns

\* Ids, and the keys that reviews are drawn by, are compared; the key of a run
\* ends with its case and its repetition, so that no two are the same.
ASSUME OrderAssumption ==
    \A c, d \in Manifest : \A k \in Kind : \A q, r \in 1..Profiles[k].repetitions :
        /\ c.id \in Nat /\ DigestRank[<<c.id, q>>] \in Nat
        /\ DigestRank[<<c.id, q>>] = DigestRank[<<d.id, r>>] => c.id = d.id /\ q = r

\* What a run is charged is a number, and it reserves at least one call.
ASSUME ReserveAssumption ==
    RunReserve.calls \in Nat \ {0} /\ RunReserve.cost \in Nat /\ PossibleCost \in Nat

\* ReviewVerdict: a review has a verdict.
ASSUME ReviewAssumption ==
    \A v \in HumanReview :
        v.verdict \in {"CORRECT", "MINOR_ERROR", "MAJOR_ERROR", "UNREVIEWABLE"}

VARIABLES
    camp,       \* the campaign rows, and what a runner has seen of them
    rows,       \* their result rows
    reviews,    \* their review rows
    reporter,   \* reports in preparation
    reads,      \* reports begun so far
    drifts      \* changes of sources so far

vars == <<camp, rows, reviews, reporter, reads, drifts>>

Status == {"ABSENT", "CREATED", "RUNNING", "STOPPING", "PAUSED",
           "AWAITING_REVIEW", "COMPLETED", "ABORTED"}
NoUsage == [observed |-> 0, possibly |-> 0, tokens |-> 0, cost |-> 0, possiblyCost |-> 0]
NoReport == [gate |-> "PENDING"]
Idle     == [k |-> None]

NoLedger == [observed |-> 0, possibly |-> 0, reserved |-> 0, tokens |-> 0, cost |-> 0,
             possiblyCost |-> 0, reservedCost |-> 0, possiblyCount |-> 0]
NoCounts == [submitted |-> 0, collected |-> 0, failed |-> 0, skipped |-> 0, degraded |-> 0]

\* A run that has left nothing, and a result row without a measurement.
NoSource == [status |-> None, invocations |-> {}]
NoMeasurement ==
    [mode |-> None, quality |-> None, stop |-> None, latency |-> NoTime, minFacts |-> 0,
     facts |-> 0, covered |-> 0, gap |-> 0, planFailure |-> FALSE, chains |-> 0,
     untraceable |-> 0, gold |-> {}, polluted |-> 0, degraded |-> FALSE,
     digest |-> NoSource]
PendingRow(unit) ==
    [unit |-> unit, state |-> "PENDING", run |-> FALSE, resv |-> "NONE",
     m |-> NoMeasurement, used |-> NoUsage, calls |-> 0, class |-> None,
     signals |-> {}, over |-> FALSE, source |-> NoSource]

Init ==
    /\ camp = [k \in Kind |->
                [status |-> "ABSENT", intent |-> "NONE", prov |-> None,
                 planned |-> FALSE, counts |-> NoCounts, ledger |-> NoLedger,
                 late |-> FALSE, seen |-> FALSE, bound |-> NoReport]]
    /\ rows = [k \in Kind |-> <<>>]
    /\ reviews = [k \in Kind |-> <<>>]
    /\ reporter = [p \in Reporter |-> Idle]
    /\ reads = [k \in Kind |-> 0]
    /\ drifts = 0

-----------------------------------------------------------------------------
\* A write that increments the version of campaign k.
Touched(k) ==
    reporter' = [p \in Reporter |->
        IF reporter[p].k = k THEN [reporter[p] EXCEPT !.fresh = FALSE] ELSE reporter[p]]

SetCampaign(k, c) == camp' = [camp EXCEPT ![k] = c] /\ Touched(k)
SetRow(k, i, r)   == rows' = [rows EXCEPT ![k][i] = r]

\* _resolve_parent: a full campaign repeats exactly what a smoke campaign has
\* certified.  The manifest, rubric and rate of a release are the same.
ParentPassed(p) ==
    LET parent == camp["SMOKE"]
    IN  /\ Clean(p)
        /\ parent.status = "COMPLETED" /\ parent.bound.gate = "PASS"
        /\ parent.prov = p

\* CampaignService.create.  A repeated request finds the row and changes nothing.
Create(k, p) ==
    /\ camp[k].status = "ABSENT" /\ FitsProfile(k, Manifest)
    /\ k = "FULL" => ParentPassed(p)
    /\ SetCampaign(k, [camp[k] EXCEPT !.status = "CREATED", !.prov = p])
    /\ UNCHANGED <<rows, reviews, reads, drifts>>

\* CampaignSchedulingService.materialize
Materialize(k) ==
    LET plan == RunPlan(k, Manifest)
    IN  /\ camp[k].status = "CREATED" /\ ~camp[k].planned /\ Plannable(k, Manifest)
        /\ SetCampaign(k, [camp[k] EXCEPT !.planned = TRUE])
        /\ rows' = [rows EXCEPT ![k] = [i \in DOMAIN plan |-> PendingRow(plan[i])]]
        /\ reviews' = [reviews EXCEPT ![k] = [i \in DOMAIN plan |-> NoReview]]
        /\ UNCHANGED <<reads, drifts>>

\* CampaignLifecycle.start, resume, request_stop, escalate_stop and abort.  An
\* abort at once is legal from STOPPING too, for who read another state before.
StatusOnly(k, status, intent) ==
    /\ SetCampaign(k, [camp[k] EXCEPT !.status = status, !.intent = intent])
    /\ UNCHANGED <<rows, reviews, reads, drifts>>

Start(k)  == camp[k].status = "CREATED" /\ camp[k].planned /\ StatusOnly(k, "RUNNING", "NONE")
Pause(k)  == camp[k].status = "RUNNING" /\ StatusOnly(k, "STOPPING", "PAUSE")
Resume(k) == camp[k].status = "PAUSED" /\ StatusOnly(k, "RUNNING", "NONE")
Abort(k)  ==
    \/ /\ camp[k].status \in {"CREATED", "PAUSED", "AWAITING_REVIEW", "STOPPING"}
       /\ StatusOnly(k, "ABORTED", "ABORT")
    \/ /\ camp[k].status = "RUNNING" \/ camp[k].intent = "PAUSE"
       /\ camp[k].status \in {"RUNNING", "STOPPING"}
       /\ StatusOnly(k, "STOPPING", "ABORT")

-----------------------------------------------------------------------------
(***************************************************************************)
(* The units.                                                                *)
(***************************************************************************)
InState(k, s) == {i \in DOMAIN rows[k] : rows[k][i].state = s}
Claimed(k)    == InState(k, "CLAIMED")
Inflight(k)   == Claimed(k) \cup InState(k, "SUBMITTED")
Collectable(k) == {i \in InState(k, "SUBMITTED") : rows[k][i].source # NoSource}

\* claim_next_result: the next unit, whose lease leaves the campaign row alone.
Claim(k) ==
    LET i == Min(InState(k, "PENDING"))
    IN  /\ camp[k].status = "RUNNING" /\ InState(k, "PENDING") # {} /\ Inflight(k) = {}
        /\ SetRow(k, i, [rows[k][i] EXCEPT !.state = "CLAIMED"])
        /\ UNCHANGED <<camp, reviews, reporter, reads, drifts>>

\* reserve_run_budget, asked by a unit without a reservation.
Exceeds(k, f, g, h, a) ==
    LET l == camp[k].ledger IN l[f] + l[g] + l[h] + RunReserve[a] > Profiles[k].ceiling[a]
OverCalls(k) == Exceeds(k, "observed", "possibly", "reserved", "calls")
OverCost(k)  == Exceeds(k, "cost", "possiblyCost", "reservedCost", "cost")
Asks(k, i)   == camp[k].status = "RUNNING" /\ rows[k][i].resv = "NONE"

Reserve(k) ==
    \E i \in Claimed(k) :
        /\ Asks(k, i) /\ ~OverCalls(k) /\ ~OverCost(k)
        /\ SetRow(k, i, [rows[k][i] EXCEPT !.resv = "ACTIVE"])
        /\ SetCampaign(k, [camp[k] EXCEPT !.ledger.reserved = @ + RunReserve.calls,
                                          !.ledger.reservedCost = @ + RunReserve.cost])
        /\ UNCHANGED <<reviews, reads, drifts>>

ReserveDenied(k) ==
    \E i \in Claimed(k) :
        /\ Asks(k, i) /\ (OverCalls(k) \/ OverCost(k))
        /\ SetRow(k, i, [rows[k][i] EXCEPT !.over = TRUE])
        /\ SetCampaign(k, [camp[k] EXCEPT !.status = "STOPPING",
                !.intent = IF OverCalls(k) THEN "CALL_CEILING" ELSE "BUDGET"])
        /\ UNCHANGED <<reviews, reads, drifts>>

\* bind_submission, of a unit that was admitted; a stop lets it go on.
Submit(k) ==
    \E i \in Claimed(k) :
        /\ rows[k][i].resv = "ACTIVE"
        /\ SetRow(k, i, [rows[k][i] EXCEPT !.state = "SUBMITTED", !.run = TRUE])
        /\ SetCampaign(k, [camp[k] EXCEPT !.counts.submitted = @ + 1])
        /\ UNCHANGED <<reviews, reads, drifts>>

\* _ensure_fatal_stop, of a submission or a collection that failed.  It returns
\* at once unless the campaign runs, so that a failure in the drain of a pause
\* leaves the campaign to be resumed.
FatalStop(k) ==
    /\ camp[k].status = "RUNNING"
    /\ Collectable(k) # {} \/ \E i \in Claimed(k) : rows[k][i].resv = "ACTIVE"
    /\ StatusOnly(k, "STOPPING", "FATAL")

\* mark_failure, after the stop: no reservation, because the campaign had been
\* stopped or was stopped by the denial; ...
FailedRow(r, resv, used, class, signal) ==
    [r EXCEPT !.state = "FAILED", !.resv = resv, !.used = used, !.class = class,
              !.signals = {signal}]

AdmissionRefused(k) ==
    \E i \in Claimed(k) :
        /\ camp[k].status # "RUNNING" /\ rows[k][i].resv = "NONE"
        /\ SetRow(k, i, FailedRow(rows[k][i], "NONE", NoUsage,
                            "PERMANENT_CONFIGURATION", "budget_admission_denied"))
        /\ SetCampaign(k, [camp[k] EXCEPT !.counts.failed = @ + 1])
        /\ UNCHANGED <<reviews, reads, drifts>>

\* ... the message was not accepted, and the reservation is released; ...
SubmissionRejected(k) ==
    \E i \in Claimed(k) :
        /\ camp[k].status # "RUNNING" /\ rows[k][i].resv = "ACTIVE"
        /\ SetRow(k, i, FailedRow(rows[k][i], "RELEASED", NoUsage,
                            "PERMANENT_CONFIGURATION", "request_rejected"))
        /\ SetCampaign(k, [camp[k] EXCEPT !.counts.failed = @ + 1,
                                !.ledger.reserved = @ - RunReserve.calls,
                                !.ledger.reservedCost = @ - RunReserve.cost])
        /\ UNCHANGED <<reviews, reads, drifts>>

\* ... or its fate is unknown after all retries, and the reservation is charged.
SubmissionUnknown(k) ==
    LET used == [NoUsage EXCEPT !.possibly = RunReserve.calls,
                                !.possiblyCost = RunReserve.cost]
    IN  \E i \in Claimed(k) :
        /\ camp[k].status # "RUNNING" /\ rows[k][i].resv = "ACTIVE"
        /\ SetRow(k, i, FailedRow(rows[k][i], "SETTLED", used,
                            "PROVIDER_TRANSIENT", "transport_exhausted"))
        /\ SetCampaign(k, [camp[k] EXCEPT !.counts.failed = @ + 1,
                !.ledger.possibly = @ + RunReserve.calls,
                !.ledger.possiblyCost = @ + RunReserve.cost,
                !.ledger.possiblyCount = @ + 1,
                !.ledger.reserved = @ - RunReserve.calls,
                !.ledger.reservedCost = @ - RunReserve.cost])
        /\ UNCHANGED <<reviews, reads, drifts>>

\* The candidate's run reaches a terminal status.
RunTerminates(k) ==
    \E i \in InState(k, "SUBMITTED") \ Collectable(k) :
        /\ \E s \in Outcomes(k, rows[k][i].unit) :
            Stored(s) /\ SetRow(k, i, [rows[k][i] EXCEPT !.source = s])
        /\ UNCHANGED <<camp, reviews, reporter, reads, drifts>>

\* settle_run_budget on the campaign row.
SettledUsage(s) ==
    LET u == Usage(s.invocations)
    IN  [observed |-> u.observed, possibly |-> u.possibly, tokens |-> u.tokens,
         cost |-> CostOf(u), possiblyCost |-> PossiblyCostOf(u)]

ExceedsReserve(u) == \/ u.observed + u.possibly > RunReserve.calls
                     \/ u.cost + u.possiblyCost > RunReserve.cost

\* Mutant: calls that may have been billed are settled as if they were not.
SettledLedgerOfBilled(l, u) ==
    [l EXCEPT !.observed = @ + u.observed, !.tokens = @ + u.tokens, !.cost = @ + u.cost,
              !.reserved = @ - RunReserve.calls, !.reservedCost = @ - RunReserve.cost]

SettledLedger(l, u) ==
    [observed |-> l.observed + u.observed, possibly |-> l.possibly + u.possibly,
     tokens |-> l.tokens + u.tokens, cost |-> l.cost + u.cost,
     possiblyCost |-> l.possiblyCost + u.possiblyCost,
     reserved |-> l.reserved - RunReserve.calls,
     reservedCost |-> l.reservedCost - RunReserve.cost,
     possiblyCount |-> l.possiblyCount + IF u.possibly + u.possiblyCost > 0 THEN 1 ELSE 0]

Breach(k, l, u) ==
    IF \/ l.observed + l.possibly + l.reserved > Profiles[k].ceiling.calls
       \/ u.observed + u.possibly > RunReserve.calls
    THEN "CALL_CEILING"
    ELSE IF \/ l.cost + l.possiblyCost + l.reservedCost > Profiles[k].ceiling.cost
            \/ u.cost + u.possiblyCost > RunReserve.cost
    THEN "BUDGET"
    ELSE "NONE"

SettledCampaign(k, u) ==
    LET l      == SettledLedger(camp[k].ledger, u)
        breach == Breach(k, l, u)
        stops  == breach # "NONE" /\ camp[k].status = "RUNNING"
    IN  [camp[k] EXCEPT !.ledger = l,
                        !.status = IF stops THEN "STOPPING" ELSE @,
                        !.intent = IF stops THEN breach ELSE @]

\* ShadowCollectorService.collect: read, measure and persist.
CollectResult(k) ==
    \E i \in Collectable(k) :
        LET r    == rows[k][i]
            m    == Collect(ReadSnapshot(r.source), r.unit.case)
            u    == SettledUsage(r.source)
            over == ExceedsReserve(u)
        IN  /\ Errors(r.source) = {}
            /\ SetRow(k, i, [r EXCEPT !.state = "COLLECTED", !.resv = "SETTLED",
                    !.m = m, !.used = u, !.calls = m.calls, !.over = over,
                    !.class = IF over THEN "CANDIDATE_DEFECT" ELSE m.class,
                    !.signals = m.signals \cup IF over THEN {"budget_violation"} ELSE {}])
            /\ SetCampaign(k, [SettledCampaign(k, u) EXCEPT
                    !.counts.collected = @ + 1,
                    !.counts.degraded = @ + IF m.degraded THEN 1 ELSE 0])
            /\ UNCHANGED <<reviews, reads, drifts>>

\* _seal_collector_failure, after the stop: a source that is invalid, is not
\* sealed when the retries are used up, or cannot be read at all, fails the unit,
\* which is settled from the audit.
CollectionFailure(e) ==
    IF e = "invalid" THEN [class |-> "PERMANENT_CONFIGURATION", signal |-> "invalid"]
    ELSE [class |-> "INFRASTRUCTURE", signal |-> "collector_retry_exhausted"]

\* Mutant: a unit that cannot be collected is given up without a finding.
CollectionForgives(k) ==
    \E i \in Collectable(k) : \E e \in Errors(rows[k][i].source) \cup {"unread"} :
        LET r == rows[k][i]
            u == SettledUsage(r.source)
        IN  /\ camp[k].status # "RUNNING"
            /\ SetRow(k, i, [r EXCEPT !.state = "FAILED", !.resv = "SETTLED", !.used = u,
                    !.calls = Cardinality(Called(r.source)), !.over = ExceedsReserve(u)])
            /\ SetCampaign(k, [SettledCampaign(k, u) EXCEPT !.counts.failed = @ + 1])
            /\ UNCHANGED <<reviews, reads, drifts>>

CollectionFails(k) ==
    \E i \in Collectable(k) : \E e \in Errors(rows[k][i].source) \cup {"unread"} :
        LET r == rows[k][i]
            u == SettledUsage(r.source)
        IN  /\ camp[k].status # "RUNNING"
            /\ SetRow(k, i, [r EXCEPT !.state = "FAILED", !.resv = "SETTLED", !.used = u,
                    !.calls = Cardinality(Called(r.source)), !.over = ExceedsReserve(u),
                    !.class = CollectionFailure(e).class,
                    !.signals = {CollectionFailure(e).signal}])
            /\ SetCampaign(k, [SettledCampaign(k, u) EXCEPT !.counts.failed = @ + 1])
            /\ UNCHANGED <<reviews, reads, drifts>>

\* The loop of a stopping campaign without work in flight.
SkipPending(k) ==
    LET pending == InState(k, "PENDING")
    IN  /\ camp[k].status = "STOPPING" /\ camp[k].intent # "PAUSE"
        /\ Inflight(k) = {} /\ pending # {}
        /\ rows' = [rows EXCEPT ![k] = [i \in DOMAIN rows[k] |->
                IF i \in pending THEN [rows[k][i] EXCEPT !.state = "SKIPPED"]
                ELSE rows[k][i]]]
        /\ SetCampaign(k, [camp[k] EXCEPT !.counts.skipped = @ + Cardinality(pending)])
        /\ UNCHANGED <<reviews, reads, drifts>>

SettleStop(k) ==
    /\ camp[k].status = "STOPPING" /\ Inflight(k) = {}
    /\ \/ camp[k].intent = "PAUSE" /\ StatusOnly(k, "PAUSED", "PAUSE")
       \/ /\ camp[k].intent # "PAUSE" /\ InState(k, "PENDING") = {}
          /\ StatusOnly(k, "ABORTED", camp[k].intent)

-----------------------------------------------------------------------------
(***************************************************************************)
(* Review.                                                                   *)
(***************************************************************************)
\* _decision_input: all that a report is computed from.
DecisionInput(k) ==
    [policy |-> Policies[k], intent |-> camp[k].intent,
     maxRuns |-> Profiles[k].maxRuns, ceiling |-> Profiles[k].ceiling,
     counts |-> camp[k].counts, ledger |-> camp[k].ledger, clean |-> Clean(camp[k].prov),
     results |-> rows[k], reviews |-> reviews[k]]

Prepared(k) == Prepare(DecisionInput(k), camp[k].status, camp[k].late)

\* The loop sees a sealed campaign whose report is not final, and remembers it.
SeeSealed(k) ==
    /\ camp[k].status = "RUNNING" /\ rows[k] # <<>> /\ ~camp[k].seen
    /\ \A i \in DOMAIN rows[k] : rows[k][i].state \in SealedResult
    /\ Prepared(k).reason = NotFinal
    /\ camp' = [camp EXCEPT ![k].seen = TRUE]
    /\ UNCHANGED <<rows, reviews, reporter, reads, drifts>>

\* CampaignLifecycle.await_review, in a later transaction: 48 hours for reviews.
\* A stop that came in between keeps its intent.
AwaitReview(k) ==
    /\ camp[k].seen /\ camp[k].status \in {"RUNNING", "STOPPING"}
    /\ SetCampaign(k, [camp[k] EXCEPT !.status = "AWAITING_REVIEW", !.seen = FALSE])
    /\ UNCHANGED <<rows, reviews, reads, drifts>>

\* The transition is refused, or the runner was killed before it.
LookEnds(k) ==
    /\ camp[k].seen
    /\ camp' = [camp EXCEPT ![k].seen = FALSE]
    /\ UNCHANGED <<rows, reviews, reporter, reads, drifts>>

DeadlinePasses(k) ==
    /\ camp[k].status = "AWAITING_REVIEW" /\ ~camp[k].late
    /\ camp' = [camp EXCEPT ![k].late = TRUE]
    /\ UNCHANGED <<rows, reviews, reporter, reads, drifts>>

\* SqlShadowReviewProjectionReader.read reads the same tables by its own rules:
\* an answer, and citations of factual claims only, each of which quotes its
\* chunk and its accepted evidence exactly.
Quotes(db, x) ==
    \E v \in db.verified, c \in db.candidates, k \in db.chunks :
        /\ v.id = x.evidence /\ c.id = v.candidate /\ k.id = c.span
        /\ k.version = c.version /\ x.span = c.span
        /\ x.quote = c.quote /\ x.quote = k.text
        /\ v.verdict = "ACCEPTED"
        /\ \E a \in db.claims : a.id = x.claim /\ a.fact = c.fact /\ a.kind = "FACTUAL"

Projectable(db) ==
    /\ \E m \in db.messages : m.id = db.output /\ m.role = "assistant"
    /\ \A x \in db.citations : Quotes(db, x)
    /\ \A a \in db.claims : a.kind \in ClaimKind

NotApplicable == [c \in Criteria |-> "NOT_APPLICABLE"]
ExpectedAnswerMissing ==
    [verdict |-> "MAJOR_ERROR", score |-> [NotApplicable EXCEPT !["completeness"] = "FAIL"]]
MaterialUnavailable == [verdict |-> "UNREVIEWABLE", score |-> NotApplicable]

ReviewsFor(r) ==
    IF r.unit.case.answerable /\ r.m.quality \notin {"COMPLETE", "PARTIAL"}
    THEN {ExpectedAnswerMissing}
    ELSE IF ~Projectable(r.source) THEN {MaterialUnavailable} ELSE HumanReview

ToReview(k) == {i \in InState(k, "COLLECTED") :
                    rows[k][i].unit.selected /\ reviews[k][i] = NoReview}

\* Mutant: a review may be submitted at any time and replaces the last one.
SubmitReviewAgain(k) ==
    \E i \in InState(k, "COLLECTED") : \E v \in ReviewsFor(rows[k][i]) :
        /\ rows[k][i].unit.selected
        /\ camp[k].status \in {"AWAITING_REVIEW", "COMPLETED"}
        /\ reviews' = [reviews EXCEPT ![k][i] = v]
        /\ SetCampaign(k, camp[k]) /\ UNCHANGED <<rows, reads, drifts>>

\* InteractiveShadowReview.review and the repository's add: the units that are
\* not reviewed yet, in their order.
SubmitReview(k) ==
    \E i \in ToReview(k) : \E v \in ReviewsFor(rows[k][i]) :
        /\ \A j \in ToReview(k) : i <= j
        /\ camp[k].status = "AWAITING_REVIEW" /\ ~camp[k].late
        /\ reviews' = [reviews EXCEPT ![k][i] = v]
        /\ SetCampaign(k, camp[k]) /\ UNCHANGED <<rows, reads, drifts>>

-----------------------------------------------------------------------------
(***************************************************************************)
(* The final report.                                                         *)
(***************************************************************************)
\* ShadowReportService.generate up to the artifacts: a report that is not
\* final is shown and leaves nothing behind.
ReadReport(p, k) ==
    LET report == Prepared(k)
    IN  /\ reporter[p] = Idle /\ camp[k].status # "ABSENT"
        /\ camp[k].bound = NoReport /\ reads[k] < MaxReads[k]
        /\ report.reason # NotFinal
        /\ reads' = [reads EXCEPT ![k] = @ + 1]
        /\ reporter' = [reporter EXCEPT ![p] =
                [k |-> k, status |-> camp[k].status, fresh |-> TRUE,
                 in |-> DecisionInput(k), report |-> report, put |-> FALSE]]
        /\ UNCHANGED <<camp, rows, reviews, drifts>>

\* LocalCampaignReportStore.put, under the digest of the content: artifacts of
\* reports that are not bound in the end stay behind unread.
PutReport(p) ==
    /\ reporter[p] # Idle /\ ~reporter[p].put
    /\ reporter' = [reporter EXCEPT ![p].put = TRUE]
    /\ UNCHANGED <<camp, rows, reviews, reads, drifts>>

TerminalStatus(c) ==
    IF c.status = "ABORTED" \/ c.intent \in Controlled THEN "ABORTED" ELSE "COMPLETED"

Bindable(p) ==
    LET q == reporter[p]
        c == camp[q.k]
    IN  /\ q # Idle /\ q.put
        /\ c.bound = NoReport
        /\ q.fresh /\ c.status = q.status
        /\ DecisionInput(q.k) = q.in
        /\ q.report.reason = "review_deadline_expired" => c.late
        /\ c.status \notin {"PAUSED", "COMPLETED"} /\ c.intent # "PAUSE"

\* SqlShadowReportGateway.bind
BindReport(p) ==
    LET q == reporter[p]
        c == camp[q.k]
    IN  /\ Bindable(p)
        /\ camp' = [camp EXCEPT ![q.k] =
                [c EXCEPT !.status = TerminalStatus(c),
                    !.bound = [gate |-> q.report.decision.status, by |-> p]]]
        /\ reporter' = [o \in Reporter |->
                IF o = p THEN Idle
                ELSE IF reporter[o].k = q.k THEN [reporter[o] EXCEPT !.fresh = FALSE]
                ELSE reporter[o]]
        /\ UNCHANGED <<rows, reviews, reads, drifts>>

\* A stale input is read again, another report is a conflict or the same; a
\* reporter that is killed leaves its artifacts behind.
ReportEnds(p) ==
    /\ reporter[p] # Idle
    /\ reporter' = [reporter EXCEPT ![p] = Idle]
    /\ UNCHANGED <<camp, rows, reviews, reads, drifts>>

\* The tables of the candidate change after the end of the run: its calls are
\* sealed by the reconciler, its material is corrected or deleted; what it asked
\* for stays.
SourceDrifts(k) ==
    \E i \in DOMAIN rows[k] :
        /\ rows[k][i].source # NoSource /\ drifts < MaxDrifts
        /\ \E s \in Drifts(rows[k][i].source) :
            /\ Stored(s) /\ s.queries = rows[k][i].source.queries
            /\ SetRow(k, i, [rows[k][i] EXCEPT !.source = s])
        /\ drifts' = drifts + 1
        /\ UNCHANGED <<camp, reviews, reporter, reads>>

Next ==
    \/ \E k \in Kind :
        \/ \E p \in Provenance : Create(k, p)
        \/ Materialize(k) \/ Start(k) \/ Pause(k) \/ Resume(k) \/ Abort(k)
        \/ Claim(k) \/ Reserve(k) \/ ReserveDenied(k) \/ Submit(k) \/ FatalStop(k)
        \/ AdmissionRefused(k) \/ SubmissionRejected(k) \/ SubmissionUnknown(k)
        \/ RunTerminates(k) \/ CollectResult(k) \/ CollectionFails(k)
        \/ SkipPending(k) \/ SettleStop(k)
        \/ SeeSealed(k) \/ AwaitReview(k) \/ LookEnds(k) \/ DeadlinePasses(k)
        \/ SubmitReview(k) \/ SourceDrifts(k)
        \/ \E p \in Reporter : ReadReport(p, k)
    \/ \E p \in Reporter : PutReport(p) \/ BindReport(p) \/ ReportEnds(p)

Spec == Init /\ [][Next]_vars

-----------------------------------------------------------------------------
(***************************************************************************)
(* Properties.                                                               *)
(***************************************************************************)
\* The campaign rows hold statuses, counters of at most maxRuns, and amounts
\* that never fall below zero.
TypeOK ==
    \A k \in Kind :
        /\ camp[k].status \in Status
        /\ camp[k].intent \in {"NONE", "PAUSE"} \cup Controlled
        /\ \A f \in DOMAIN NoCounts : camp[k].counts[f] \in 0..Profiles[k].maxRuns
        /\ \A f \in DOMAIN NoLedger : camp[k].ledger[f] >= 0
        /\ camp[k].bound.gate \in {"PENDING", "PASS", "FAIL", "INSUFFICIENT_SAMPLE"}
        /\ DOMAIN reviews[k] = DOMAIN rows[k]

\* Every factual claim of a source quotes evidence that was accepted for its own
\* fact and that was fetched by the run, the queries kept off what the case forbids, the calls kept to the
\* limit of the mode, and no call is open.
Sound(s, case) ==
    /\ \A c \in s.claims : c.kind = "FACTUAL" =>
        \E x \in s.citations, v \in s.verified, e \in s.candidates :
            /\ x.claim = c.id /\ x.evidence = v.id /\ v.candidate = e.id
            /\ v.verdict = "ACCEPTED" /\ e.fact = c.fact /\ x.quote = e.quote
            /\ \E f \in s.fetches : f.version = e.version /\ f.status = "SUCCEEDED"
    /\ \A q \in s.queries : q.terms \cap case.forbidden = {}
    /\ \A i \in s.invocations : i.status # "STARTED"
    /\ Cardinality({i \in s.invocations : i.called}) <= ModelLimit[s.mode]

\* A unit that could not be run or collected through no fault of the candidate.
Unlucky(r) ==
    /\ r.state = "FAILED" /\ ~r.unit.selected
    /\ r.class \in {"INFRASTRUCTURE", "PROVIDER_TRANSIENT"}

\* A gate that passes was earned: at the moment of bind the source trees were
\* clean, every unit of the plan has been collected from a source that is sound
\* as it stands or failed through no fault of the candidate, no unit was skipped,
\* enough of them were collected, and the owner has reviewed exactly what was
\* selected without a major error.  Measurement, settlement, review, preparation
\* and binding read their inputs at five different times; a failure in the drain
\* of a pause is forgotten by the campaign that is resumed, and only its row
\* tells; and as the policy of a full campaign is content with fewer runs, it
\* takes the lifecycle to exclude that the rest was skipped.
PassIsEarned ==
    [][\A k \in Kind :
        camp[k].bound.gate # "PASS" /\ camp'[k].bound.gate = "PASS" =>
            /\ Len(rows[k]) = Profiles[k].maxRuns /\ Clean(camp[k].prov)
            /\ \A i \in DOMAIN rows[k] :
                /\ \/ Unlucky(rows[k][i])
                   \/ /\ rows[k][i].state = "COLLECTED"
                      /\ Sound(rows[k][i].source, rows[k][i].unit.case)
                /\ rows[k][i].unit.selected =>
                        reviews[k][i].verdict \notin {None, "MAJOR_ERROR", "UNREVIEWABLE"}
            /\ Cardinality(InState(k, "COLLECTED")) >= Policies[k].fast + Policies[k].research
            /\ Cardinality({i \in DOMAIN rows[k] : reviews[k][i] # NoReview})
                    = Policies[k].reviews]_vars

\* What the collector counts as traceable can be reviewed: a selected result
\* without a finding against its citations is not given up as unreviewable,
\* although the review reads the tables again and by rules of its own, unless
\* the tables have changed in between.
TraceableIsReviewable ==
    \A k \in Kind : \A i \in DOMAIN rows[k] :
        /\ rows[k][i].unit.selected /\ rows[k][i].state = "COLLECTED"
        /\ rows[k][i].m.untraceable = 0 /\ rows[k][i].m.quality = "COMPLETE"
        /\ "nonfactual_citation" \notin rows[k][i].signals /\ drifts = 0
        => ReviewsFor(rows[k][i]) = HumanReview

\* A report that is bound is the last word: the gate, the report, the status and the
\* reviews of the campaign never change again, whoever else was preparing a
\* report of the same campaign and whatever is still collected (a hard
\* violation is final at once, so that units may be in flight).
OneFinalReport ==
    [][\A k \in Kind :
        camp'[k].bound # NoReport =>
            /\ camp'[k].status \in {"COMPLETED", "ABORTED"}
            /\ camp[k].bound # NoReport =>
                /\ camp'[k].bound = camp[k].bound /\ camp'[k].status = camp[k].status
                /\ reviews'[k] = reviews[k]]_vars

\* The campaign row agrees with its result rows and these with the audit of
\* model calls, so that the report raises no false alarm: whatever ended the
\* units, the reconciliation finds nothing but changes of the audit itself.
LedgerReconciles ==
    \A k \in Kind :
        camp[k].status # "ABSENT" /\ drifts = 0 =>
            Mismatches(DecisionInput(k)) \subseteq {"orphans"}

\* No campaign waits for ever for its decision: one that was aborted, or whose
\* review window has closed, has a report that may be bound at once, whatever
\* stopped it and whatever is in flight, unless a pause overtook the runner on
\* its way from the sealed campaign to the review.
AlwaysDecidable ==
    \A k \in Kind :
        /\ camp[k].bound = NoReport
        /\ \/ camp[k].status = "ABORTED"
           \/ /\ camp[k].status = "AWAITING_REVIEW" /\ camp[k].late
              /\ camp[k].intent # "PAUSE"
        => Prepared(k).reason # NotFinal /\ Prepared(k).decision.status # "PENDING"

\* What such a pause does: the campaign is never decided, and no command but an
\* abort is legal (domain.py:89-104, report.py:1022-1025).
ReviewsDecide ==
    \A k \in Kind :
        camp[k].bound = NoReport /\ camp[k].status = "AWAITING_REVIEW" /\ camp[k].late =>
            Prepared(k).reason # NotFinal

\* The plan covers every selected case in every repetition, and what it selects
\* for review are answerable cases, each once, equally many of each stratum.
PlanIsBalanced ==
    \A k \in Kind : rows[k] # <<>> =>
        LET unit(i) == rows[k][i].unit
            chosen  == {i \in DOMAIN rows[k] : unit(i).selected}
        IN  /\ {<<unit(i).case, unit(i).repetition>> : i \in DOMAIN rows[k]} =
                    Selected(k, Manifest) \X (1..Profiles[k].repetitions)
            /\ Cardinality({unit(i).case : i \in chosen}) = Policies[k].reviews
            /\ Cardinality(chosen) = Policies[k].reviews
            /\ \A i \in chosen : unit(i).case.answerable
            /\ \A s, t \in DOMAIN Strata :
                Cardinality({i \in chosen : StratumNo(unit(i).case) = s}) =
                Cardinality({i \in chosen : StratumNo(unit(i).case) = t})

\* A candidate that does everything right is released: when all units have been
\* collected from good sources and the owner found all of the selected ones
\* correct, the decision is PASS.
GoodRunsPass ==
    \A k \in Kind :
        /\ rows[k] # <<>> /\ Clean(camp[k].prov)
        /\ camp[k].status \in {"RUNNING", "AWAITING_REVIEW"} /\ camp[k].intent # "PAUSE"
        /\ \A i \in DOMAIN rows[k] :
            /\ rows[k][i].state = "COLLECTED" /\ Good(rows[k][i])
            /\ rows[k][i].unit.selected =>
                    reviews[k][i].verdict = "CORRECT" /\ \A c \in Criteria :
                        reviews[k][i].score[c] = "PASS"
        => Prepared(k).decision.status = "PASS"
=============================================================================
