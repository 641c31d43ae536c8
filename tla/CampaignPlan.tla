---------------------------- MODULE CampaignPlan ----------------------------
(***************************************************************************)
(* What a campaign is made of before it runs: the manifest of cases, the     *)
(* locked profiles and gate policies, and the plan of runs drawn from them.  *)
(* A case keeps the fields that a later decision reads; its prompt, tags and *)
(* category are what `regression' says of them.                              *)
(***************************************************************************)
EXTENDS Integers, Sequences, FiniteSets

CONSTANTS
    Quota,      \* the counts that a manifest must meet
    Profiles,   \* [SMOKE, FULL]: runs, repetitions, ceilings
    Policies,   \* [SMOKE, FULL]: GatePolicy
    DigestRank  \* order of the keys <<SHA-256, case, repetition>> in a campaign

Kind    == {"SMOKE", "FULL"}
Mode    == <<"FAST", "RESEARCH">>
Strata  == <<<<"FAST", "zh-CN">>, <<"RESEARCH", "zh-CN">>,
             <<"FAST", "en">>, <<"RESEARCH", "en">>>>
Operators == {"normalized_contains_all", "normalized_equals", "number_in_range",
              "set_contains", "source_class_at_least"}

-----------------------------------------------------------------------------
(***************************************************************************)
(* The manifest.                                                             *)
(***************************************************************************)
ValidAssertion(g) ==
    /\ g.operator \in Operators /\ g.critical \in BOOLEAN
    /\ g.expected # {}

ValidCase(c) ==
    /\ c.mode \in {"FAST", "RESEARCH"} /\ c.locale \in {"zh-CN", "en"}
    /\ c.minFacts \in 1..50
    /\ \A g \in c.gold : ValidAssertion(g)
    /\ Cardinality({g.id : g \in c.gold}) = Cardinality(c.gold)
    /\ c.mustNotComplete # c.answerable
    /\ CASE c.oracle = "deterministic"   -> c.answerable /\ c.gold # {} /\ c.window # {}
         [] c.oracle = "manual_required" -> c.answerable /\ c.gold = {}
         [] c.oracle = "not_applicable"  -> ~c.answerable /\ c.gold = {}

Smoke(m)       == {c \in m : c.smoke}
InStratum(m, s) == {c \in m : <<c.mode, c.locale>> = s}
Of(m, mode)    == {c \in m : c.mode = mode}
Answerable(m)  == {c \in m : c.answerable}

\* _validate_distribution: a manifest that is parsed at `now' must stay valid
\* for the window in which the campaign is active.
ValidDistribution(m, active) ==
    /\ Cardinality(m) = Quota.cases
    /\ Cardinality({c.id : c \in m}) = Cardinality(m)
    /\ \A i \in DOMAIN Mode : Cardinality(Of(m, Mode[i])) = Quota.perMode
    /\ \A i \in DOMAIN Strata :
        LET here == InStratum(m, Strata[i])
        IN  /\ Cardinality(here) = Quota.perStratum
            /\ Cardinality(Answerable(here)) >= Quota.answerable
            /\ Cardinality({c \in here : c.oracle = "deterministic"})
                    >= Quota.deterministic
    /\ Cardinality(m \ Answerable(m)) >= Quota.unanswerable
    /\ Cardinality({c \in m : c.regression}) >= Quota.regressions
    /\ Cardinality(Smoke(m)) = Quota.smoke
    /\ \A i \in DOMAIN Mode : Cardinality(Of(Smoke(m), Mode[i])) = Quota.smokePerMode
    /\ Smoke(m) \ Answerable(m) # {}
    /\ \A c \in m : c.oracle = "deterministic" => active \subseteq c.window

ValidManifest(m, active) ==
    /\ m # {} /\ \A c \in m : ValidCase(c)
    /\ ValidDistribution(m, active)

-----------------------------------------------------------------------------
(***************************************************************************)
(* Profiles and policies.                                                    *)
(***************************************************************************)
ValidProfile(p) ==
    /\ {p.maxRuns, p.repetitions} \subseteq Nat \ {0} /\ p.maxRuns % p.repetitions = 0
    /\ p.structural = p.maxRuns * 8
    /\ 0 < p.ceiling.calls /\ p.ceiling.calls <= p.structural
    /\ p.ceiling.cost > 0

Shares == {"mode", "coverage", "stratum", "gold", "correctness",
           "citation_relevance", "source_appropriateness", "freshness",
           "completeness", "gap", "degraded", "infrastructure"}

SampleCounts ==
    {"terminal", "fast", "research", "cases", "unCases", "unResults", "reviews", "goldCases"}
BasisPoints == 0..10000

ValidPolicy(p) ==
    /\ \A f \in SampleCounts : p[f] \in Nat
    /\ p.p95["FAST"] > 0 /\ p.p95["RESEARCH"] > 0
    /\ \A f \in Shares : p.bps[f] \in BasisPoints
    /\ p.projected # 0

\* _validate_manifest_profile
Selected(k, m) == IF k = "SMOKE" THEN Smoke(m) ELSE m
FitsProfile(k, m) ==
    Cardinality(Selected(k, m)) * Profiles[k].repetitions = Profiles[k].maxRuns

-----------------------------------------------------------------------------
(***************************************************************************)
(* The plan of runs.                                                         *)
(***************************************************************************)
StratumNo(c) == CHOOSE i \in DOMAIN Strata : Strata[i] = <<c.mode, c.locale>>

\* _ordered_cases takes one case of each stratum in turn, by their ids.
OrderedCases(m) ==
    LET turn(c)      == Cardinality({d \in InStratum(m, <<c.mode, c.locale>>) : d.id < c.id})
        before(c, d) == \/ turn(c) < turn(d)
                        \/ turn(c) = turn(d) /\ StratumNo(c) < StratumNo(d)
    IN  [n \in 1..Cardinality(m) |->
            CHOOSE c \in m : Cardinality({d \in m : before(d, c)}) = n - 1]

\* select_review_units: in each stratum the answerable cases with the smallest
\* digests, each in the repetition that its smallest digest is of.
First(c, reps) ==
    CHOOSE r \in 1..reps : \A o \in 1..reps : DigestRank[<<c.id, r>>] <= DigestRank[<<c.id, o>>]

\* Mutant: questions without an answer are drawn as well.
ReviewUnitsOfAll(m, reps, n) ==
    LET pool(i) == InStratum(m, Strata[i])
        rank(c) == DigestRank[<<c.id, First(c, reps)>>]
        ahead(i, c) == Cardinality({d \in pool(i) : rank(d) < rank(c)})
    IN  UNION {{<<c.id, First(c, reps)>> : c \in {d \in pool(i) : ahead(i, d) < n}} :
                    i \in DOMAIN Strata}

ReviewUnits(m, reps, n) ==
    LET pool(i) == Answerable(InStratum(m, Strata[i]))
        rank(c) == DigestRank[<<c.id, First(c, reps)>>]
        ahead(i, c) == Cardinality({d \in pool(i) : rank(d) < rank(c)})
    IN  UNION {{<<c.id, First(c, reps)>> : c \in {d \in pool(i) : ahead(i, d) < n}} :
                    i \in DOMAIN Strata}

EnoughToReview(m, n) ==
    \A i \in DOMAIN Strata : Cardinality(Answerable(InStratum(m, Strata[i]))) >= n

\* materialize_run_plans: the repetitions one after the other.
RunPlan(k, m) ==
    LET order   == OrderedCases(Selected(k, m))
        reps    == Profiles[k].repetitions
        reviews == Policies[k].reviews
        chosen  == IF reviews = 0 THEN {} ELSE ReviewUnits(m, reps, reviews \div 4)
        nth(i)  == order[((i - 1) % Len(order)) + 1]
        rep(i)  == ((i - 1) \div Len(order)) + 1
    IN  [i \in 1..(Len(order) * reps) |->
            [case |-> nth(i), repetition |-> rep(i),
             selected |-> <<nth(i).id, rep(i)>> \in chosen]]

\* The conditions under which materialize_run_plans raises nothing.
Plannable(k, m) ==
    /\ FitsProfile(k, m) /\ Policies[k].reviews % 4 = 0
    /\ Policies[k].reviews > 0 => EnoughToReview(m, Policies[k].reviews \div 4)
=============================================================================
