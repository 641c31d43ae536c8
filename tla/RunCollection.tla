---------------------------- MODULE RunCollection ----------------------------
(***************************************************************************)
(* What the collector makes of the records that one run has left: whether    *)
(* they are sealed, and the measurement of the run against its case.         *)
(*                                                                           *)
(* `db' is what the candidate's tables hold of one run: a record of sets of  *)
(* rows, with the columns that the measurement looks at.  The reader makes a *)
(* snapshot `s' of it.  Spans stand for chunk and offsets, a text is the set *)
(* of its terms, tokens are one number, times are milliseconds; time stamps  *)
(* carry a zone, as all of the database do.                                  *)
(***************************************************************************)
EXTENDS Integers, Sequences, FiniteSets, FiniteSetsExt

None == "none"
NoTime == -1

ModelLimit == [FAST |-> 4, RESEARCH |-> 8]
TerminalRun == {"SUCCEEDED", "FAILED", "CANCELLED"}
TerminalStep == {"SUCCEEDED", "FAILED", "SKIPPED", "CANCELLED"}
TerminalInvocation == {"COMPLETED", "FAILED", "ABANDONED", "REUSED"}
TerminalProvider == {"SUCCEEDED", "FAILED"}
CoveredFact == {"COVERED", "VERIFIED"}
ClaimKind == {"FACTUAL", "UNCERTAINTY", "COMMENTARY"}
Rank == [UNKNOWN |-> 0, INDEPENDENT |-> 1, OFFICIAL |-> 2]
Category == {"TRANSIENT", "PERMANENT", "BUDGET", "CONTENT", "MODEL_OUTPUT",
             "CANCELLED", "INTERNAL", "INFRASTRUCTURE"}

Ids(rows)     == {x.id : x \in rows}
Unique(rows)  == Cardinality(Ids(rows)) = Cardinality(rows)
Row(rows, i)  == CHOOSE x \in rows : x.id = i

\* The sum of the numbers f(x), counted one by one.
Total(f(_), S) == Cardinality(UNION {{x} \X (1..f(x)) : x \in S})

\* An invocation is written with what it may cost: a call that was made is billed
\* or possibly so from the start, and only a completed one is billed for sure.
Accounted(i) ==
    i.tokens \in Nat /\ (i.called => i.billing \in {"BILLED", "POSSIBLY_BILLED"})

\* What the keys of the tables and the writers of a run guarantee of `db': ids
\* identify their rows, a candidate quotes its span, invocations are accounted
\* for, and a run that was answered completely has succeeded.
Keyed(rows) == \A x, y \in rows : x.id = y.id => x = y
Stored(db) ==
    /\ IsFiniteSet(db.claims) /\ IsFiniteSet(db.queries) /\ IsFiniteSet(db.invocations)
    /\ Keyed(db.claims) /\ Keyed(db.verified)
    /\ \A c \in db.candidates, k \in db.chunks :
            k.id = c.span /\ k.version = c.version => k.text = c.quote
    /\ \A i \in db.invocations : Accounted(i)
    /\ db.quality = "COMPLETE" => db.status = "SUCCEEDED"

-----------------------------------------------------------------------------
(***************************************************************************)
(* SqlShadowSnapshotReader.read.                                             *)
(***************************************************************************)
Same == {"status", "quality", "stop", "mode", "created", "deadline", "completed",
         "budget", "recordedCalls", "recordedTokens", "facts", "queries",
         "providers", "steps", "attempts", "invocations", "claims", "outbox"}

\* The answer: a message of the assistant that the response is bound to.
Output(db) ==
    /\ db.response = "SUCCEEDED"
    /\ \E m \in db.messages : m.id = db.output /\ m.role = "assistant"

\* Evidence is chained when its chunk belongs to its document version and the
\* version comes from a successful fetch of this run.
Chained(db, c) ==
    /\ \E k \in db.chunks : k.id = c.span /\ k.version = c.version
    /\ \E f \in db.fetches : f.version = c.version /\ f.status = "SUCCEEDED"

ReadEvidence(db) ==
    {LET c == Row(db.candidates, v.candidate)
     IN  [id |-> v.id, fact |-> c.fact, verdict |-> v.verdict, span |-> c.span,
          authority |-> c.authority, chained |-> Chained(db, c)] : v \in db.verified}

\* Mutant: what a citation quotes is not compared.
ReadCitationsOfAnyQuote(db) ==
    {[id |-> x.id, claim |-> x.claim, evidence |-> x.evidence, span |-> x.span,
      matches |-> \E v \in db.verified : v.id = x.evidence] : x \in db.citations}

\* A citation matches when it quotes what the candidate of its evidence quotes.
ReadCitations(db) ==
    {[id |-> x.id, claim |-> x.claim, evidence |-> x.evidence, span |-> x.span,
      matches |-> \E v \in db.verified : /\ v.id = x.evidence
                                         /\ Row(db.candidates, v.candidate).quote = x.quote] :
        x \in db.citations}

\* Evidence without its candidate fails the reader.
Unreadable(db) == \E v \in db.verified : v.candidate \notin Ids(db.candidates)

ReadSnapshot(db) ==
    [f \in Same \cup {"output", "evidence", "citations"} |->
        CASE f = "output"    -> Output(db)
          [] f = "evidence"  -> ReadEvidence(db)
          [] f = "citations" -> ReadCitations(db)
          [] OTHER           -> db[f]]

-----------------------------------------------------------------------------
(***************************************************************************)
(* _validate_snapshot.  Each check gives the kinds of error it can raise:    *)
(* "transient" errors are collected again, "invalid" ones fail the result.   *)
(* Rows of one table come in no order, so a check with bad rows of both      *)
(* kinds can raise either.                                                   *)
(***************************************************************************)
Raises(bad, kind) == IF bad THEN {kind} ELSE {}

\* The provider is called if and only if the call may be billed; what is
\* billed was completed, and what may have been billed failed or was given up.
BillingBound(i) ==
    /\ i.called <=> i.billing # "NOT_BILLED"
    /\ i.status = "REUSED" => ~i.called
    /\ i.billing = "BILLED" => i.status = "COMPLETED"
    /\ i.billing = "POSSIBLY_BILLED" => i.status \in {"FAILED", "ABANDONED"}

RunErrors(s) ==
    Raises(\/ s.status \notin TerminalRun \/ s.deadline <= s.created
           \/ s.mode \notin DOMAIN ModelLimit, "invalid")

StepErrors(s) ==
    Raises(\E x \in s.steps : x.status \notin TerminalStep, "transient")
    \cup Raises(\/ ~Unique(s.steps)
                \/ \E x \in s.steps : /\ x.status \in TerminalStep
                                      /\ (x.status = "SUCCEEDED") # x.bound,
                "invalid")

AttemptErrors(s) ==
    Raises(\E a \in s.attempts : ~a.done \/ a.step \notin Ids(s.steps), "transient")
    \cup Raises(~Unique(s.attempts), "invalid")

InvocationErrors(s) ==
    LET chained(i) == \E a \in s.attempts : a.id = i.attempt /\ a.step = i.step
        closed(i)  == i.status \in TerminalInvocation /\ i.done
    IN  Raises(\E i \in s.invocations : chained(i) /\ ~closed(i), "transient")
        \cup Raises(\/ ~Unique(s.invocations)
                    \/ \E i \in s.invocations :
                        ~chained(i) \/ (closed(i) /\ ~BillingBound(i)), "invalid")

PlanErrors(s) ==
    Raises(\/ ~Unique(s.facts) \/ ~Unique(s.queries)
           \/ \E q \in s.queries : q.fact \notin Ids(s.facts), "invalid")

ProviderErrors(s) ==
    Raises(\E p \in s.providers : \/ p.query \notin Ids(s.queries)
                                  \/ p.status \notin TerminalProvider \/ ~p.done,
           "transient")

OutboxErrors(s) == Raises(\E o \in s.outbox : ~o.published, "transient")

OutputErrors(s) == Raises(s.status = "SUCCEEDED" /\ ~s.output, "invalid")

ClaimErrors(s) ==
    Raises(\/ ~Unique(s.claims)
           \/ \E c \in s.claims : \/ c.kind \notin ClaimKind
                                  \/ c.kind = "FACTUAL" /\ c.fact \notin Ids(s.facts)
           \/ \E c \in s.citations : c.claim \notin Ids(s.claims), "invalid")

\* The first check that fails decides.
Errors(db) ==
    LET s      == ReadSnapshot(db)
        checks == <<RunErrors(s), StepErrors(s), AttemptErrors(s),
                    InvocationErrors(s), PlanErrors(s), ProviderErrors(s),
                    OutboxErrors(s), OutputErrors(s), ClaimErrors(s)>>
        failed == {i \in DOMAIN checks : checks[i] # {}}
    IN  IF Unreadable(db) THEN {"invalid"}
        ELSE IF failed = {} THEN {} ELSE checks[Min(failed)]

-----------------------------------------------------------------------------
(***************************************************************************)
(* collect_run_snapshot: the answer.                                         *)
(***************************************************************************)
Factual(s) == {c \in s.claims : c.kind = "FACTUAL"}

ValidCitation(s, c) ==
    \E e \in s.evidence : /\ e.id = c.evidence /\ e.verdict = "ACCEPTED"
                          /\ e.fact = Row(s.claims, c.claim).fact /\ e.chained
                          /\ c.span = e.span /\ c.matches

CitationsOf(s, c) == {x \in s.citations : x.claim = c.id}
Untraceable(s) ==
    {c \in Factual(s) : \/ ~\E x \in CitationsOf(s, c) : ValidCitation(s, x)
                        \/ \E x \in CitationsOf(s, c) : ~ValidCitation(s, x)}
ValidEvidence(s) ==
    {e \in s.evidence : \E x \in s.citations :
        /\ x.evidence = e.id /\ x.claim \in Ids(Factual(s)) /\ ValidCitation(s, x)}

RequiredFacts(s) == {f \in s.facts : f.required}
Covered(s)       == {f \in RequiredFacts(s) : f.status \in CoveredFact}
FactBase(s, case) == Max({Cardinality(RequiredFacts(s)), case.minFacts})
FactGap(s, case)  == FactBase(s, case) - Cardinality(Covered(s))
PlanFailure(s, case) == Cardinality(RequiredFacts(s)) < case.minFacts

Polluted(s, case) == {q \in s.queries : q.terms \cap case.forbidden # {}}

\* evaluate_gold_assertion with _assertion_actual: what the claims say, or the
\* best authority among the evidence they rest on.
GoldHolds(s, g) ==
    CASE g.operator = "normalized_contains_all" ->
            g.expected \subseteq UNION {c.text : c \in s.claims}
      [] g.operator = "normalized_equals" ->
            g.expected = UNION {c.text : c \in s.claims}
      [] g.operator = "number_in_range" ->  \* the whole answer is one number
            \E n \in g.expected : UNION {c.text : c \in s.claims} = {n}
      [] g.operator = "set_contains" ->
            \A t \in g.expected : \E c \in s.claims : c.text = {t}
      [] g.operator = "source_class_at_least" ->
            \E a \in g.expected : \/ Rank[a] = 0
                                  \/ \E e \in ValidEvidence(s) :
                                        Rank[e.authority] >= Rank[a]

\* _gold_results: outside of its window an oracle says nothing.
TerminalValid(s) == s.completed # NoTime /\ s.completed >= s.created
TerminalAt(s)    == IF TerminalValid(s) THEN s.completed ELSE s.deadline
GoldResults(s, case) ==
    {[id |-> g.id, critical |-> g.critical,
      status |-> IF TerminalAt(s) \notin case.window THEN "NOT_APPLICABLE"
                 ELSE IF GoldHolds(s, g) THEN "PASS" ELSE "FAIL"] : g \in case.gold}

-----------------------------------------------------------------------------
(***************************************************************************)
(* Usage and classification.                                                 *)
(***************************************************************************)
CallsBilled(rows, how) == {i \in rows : i.called /\ i.billing = how}
Called(s)   == {i \in s.invocations : i.called}
Tokens(rows) == Total(LAMBDA i : i.tokens, rows)

\* The usage that a result is settled with.
Usage(rows) ==
    [observed |-> Cardinality(CallsBilled(rows, "BILLED")),
     possibly |-> Cardinality(CallsBilled(rows, "POSSIBLY_BILLED")),
     tokens   |-> Tokens(CallsBilled(rows, "BILLED"))]

SourceClasses(s, case) ==
    {e.authority : e \in IF case.answerable THEN ValidEvidence(s)
                         ELSE {x \in s.evidence : x.chained}}

CandidateSignals(s, case) ==
    Raises(PlanFailure(s, case), "plan_completeness_failure")
    \cup Raises(Untraceable(s) # {}, "citation_traceability_violation")
    \cup Raises(\E c \in s.citations : Row(s.claims, c.claim).kind # "FACTUAL",
                "nonfactual_citation")
    \cup Raises(Polluted(s, case) # {}, "query_pollution")
    \cup Raises(Cardinality(Called(s)) > ModelLimit[s.mode], "model_call_budget_exceeded")
    \cup Raises(s.budget # ModelLimit[s.mode], "run_budget_snapshot_mismatch")
    \cup Raises(\/ s.recordedCalls # Cardinality(Called(s))
                \/ s.recordedTokens # Usage(s.invocations).tokens,
                "model_invocation_ledger_mismatch")
    \cup Raises(\E g \in GoldResults(s, case) : g.status = "FAIL", "gold_assertion_failure")
    \cup Raises(case.mustNotComplete /\ s.quality = "COMPLETE",
                "unanswerable_marked_complete")
    \cup Raises(~(case.sources \subseteq SourceClasses(s, case)),
                "required_source_class_missing")
    \cup Raises(s.mode # case.mode, "mode_mismatch")

Categories(s) ==
    Category \cap ({p.error : p \in s.providers} \cup {a.error : a \in s.attempts}
                   \cup {i.error : i \in s.invocations})

StopSignal == [INFRASTRUCTURE_FAILURE |-> "infrastructure_failure",
               PROVIDER_FAILURE       |-> "provider_transient",
               INSUFFICIENT_EVIDENCE  |-> "content_gap",
               POLICY_BLOCKED         |-> "candidate_runtime_defect"]

RunSignals(s, case) ==
    LET has(c) == Categories(s) \cap c # {}
    IN  Raises(has({"PERMANENT"}), "permanent_configuration")
        \cup Raises(has({"INTERNAL", "INFRASTRUCTURE"}), "infrastructure_failure")
        \cup Raises(has({"TRANSIENT"}), "provider_transient")
        \cup Raises(has({"CONTENT"}) \/ FactGap(s, case) # 0, "content_gap")
        \cup Raises(has({"MODEL_OUTPUT", "BUDGET"}), "candidate_runtime_defect")
        \cup Raises(s.status = "CANCELLED", "unexpected_candidate_cancelled")
        \cup Raises(~TerminalValid(s), "source_terminal_timestamp_invalid")
        \cup IF s.stop \in DOMAIN StopSignal THEN {StopSignal[s.stop]} ELSE {}

Signals(s, case) ==
    LET found == CandidateSignals(s, case) \cup RunSignals(s, case)
    IN  IF s.status = "FAILED" /\ found = {} THEN {"unclassified_terminal_failure"}
        ELSE found

\* Signals that the candidate is not to be blamed for.
Environmental == {"permanent_configuration", "infrastructure_failure",
                  "provider_transient", "content_gap",
                  "unclassified_terminal_failure",
                  "source_terminal_timestamp_invalid"}

\* _classification: the gravest class wins.
ErrorClass(signals) ==
    IF signals \ Environmental # {} THEN "CANDIDATE_DEFECT"
    ELSE IF "permanent_configuration" \in signals THEN "PERMANENT_CONFIGURATION"
    ELSE IF signals \cap {"infrastructure_failure", "unclassified_terminal_failure",
                          "source_terminal_timestamp_invalid"} # {}
    THEN "INFRASTRUCTURE"
    ELSE IF "provider_transient" \in signals THEN "PROVIDER_TRANSIENT"
    ELSE IF "content_gap" \in signals THEN "CONTENT_GAP"
    ELSE None

Degraded(s, case) ==
    \/ \E p \in s.providers : p.status # "SUCCEEDED"
    \/ CallsBilled(s.invocations, "POSSIBLY_BILLED") # {}
    \/ Signals(s, case) \cap {"provider_transient", "infrastructure_failure"} # {}

\* A run that did not succeed in time counts as one past its deadline.
Latency(s) ==
    LET past == s.deadline - s.created + 1
    IN  IF ~TerminalValid(s) \/ (s.status # "SUCCEEDED" /\ s.completed > s.deadline)
        THEN past ELSE s.completed - s.created

\* source_snapshot_digest: the metric-relevant fields without any content.
Digest(s) ==
    [s EXCEPT !.queries = {[id |-> q.id, fact |-> q.fact] : q \in @},
              !.claims  = {[id |-> c.id, kind |-> c.kind, fact |-> c.fact] : c \in @}]

\* The measurement.
Collect(s, case) ==
    [mode |-> s.mode, quality |-> s.quality, stop |-> s.stop, latency |-> Latency(s),
     minFacts |-> case.minFacts, facts |-> Cardinality(RequiredFacts(s)),
     covered |-> Cardinality(Covered(s)), gap |-> FactGap(s, case),
     planFailure |-> PlanFailure(s, case),
     chains |-> Cardinality({x \in s.citations : ValidCitation(s, x)}),
     untraceable |-> Cardinality(Untraceable(s)), gold |-> GoldResults(s, case),
     polluted |-> Cardinality(Polluted(s, case)), calls |-> Cardinality(Called(s)),
     usage |-> Usage(s.invocations), degraded |-> Degraded(s, case),
     signals |-> Signals(s, case), class |-> ErrorClass(Signals(s, case)),
     digest |-> Digest(s)]
=============================================================================
