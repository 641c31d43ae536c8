------------------------------ MODULE Workflow ------------------------------
(***************************************************************************)
(* The step graph of a search run and the rules by which the completion    *)
(* coordinator (sana/app/workflow_completion.py) extends it.               *)
(*                                                                         *)
(* A run starts with one ROUTE step.  Whenever a step ends, the            *)
(* coordinator looks at the statuses of all steps of the run and may add   *)
(* further steps:                                                          *)
(*                                                                         *)
(*   ROUTE -> PLAN -> DISCOVERY per query -> SELECT -> FETCH per source    *)
(*         -> EXTRACT per source -> VERIFY -> SYNTHESIZE                   *)
(*                                                                         *)
(* DISCOVERY, FETCH and EXTRACT fan out and are joined again by SELECT,    *)
(* VERIFY and SYNTHESIZE; a branch that fails is skipped over.  The        *)
(* operators below are functions of `st', the status of every step with    *)
(* the status of the step that just ended already replaced, which is what  *)
(* the code computes with _status(row, current).                           *)
(***************************************************************************)
EXTENDS Integers, FiniteSets

CONSTANTS
    Queries,        \* query keys a plan may contain
    Sources,        \* search hits a selection may contain
    HitsOf,         \* Queries -> the sources their discovery may return
    Mode,           \* "FAST" or "RESEARCH"
    Direct,         \* the sources whose hit came from provider "direct"
    FactsOf,        \* Sources -> the fact ids their hit is about
    RequiredFacts   \* the required fact ids of the plan

ASSUME WorkflowAssumption ==
    /\ HitsOf \in [Queries -> SUBSET Sources]
    /\ Mode \in {"FAST", "RESEARCH"}
    /\ Direct \subseteq Sources

(***************************************************************************)
(* A step is named by its type and, where the type fans out, by the query  *)
(* or the source it works on (step_key "discover:q", "fetch:i:s",          *)
(* "extract:i:s").                                                         *)
(***************************************************************************)
Only == "only"

Route      == [type |-> "ROUTE", id |-> Only]
Plan       == [type |-> "PLAN", id |-> Only]
Discovery(q) == [type |-> "DISCOVERY", id |-> q]
Select     == [type |-> "SELECT", id |-> Only]
Fetch(s)   == [type |-> "FETCH", id |-> s]
Extract(s) == [type |-> "EXTRACT", id |-> s]
Verify     == [type |-> "VERIFY", id |-> Only]
Synthesize == [type |-> "SYNTHESIZE", id |-> Only]

StepType == {"ROUTE", "PLAN", "DISCOVERY", "SELECT", "FETCH", "EXTRACT",
             "VERIFY", "SYNTHESIZE"}

Discoveries == [type : {"DISCOVERY"}, id : Queries]
Fetches     == [type : {"FETCH"}, id : Sources]
Extracts    == [type : {"EXTRACT"}, id : Sources]

Steps == {Route, Plan, Select, Verify, Synthesize}
            \cup Discoveries \cup Fetches \cup Extracts

\* ABSENT: there is no row for the step yet.  SKIPPED is left out: no code
\* of the platform calls SearchStep.skip.
StepStatus == {"ABSENT", "READY", "RUNNING", "RETRY_WAIT",
               "SUCCEEDED", "FAILED", "CANCELLED"}
Terminal   == {"SUCCEEDED", "FAILED", "CANCELLED"}
Open       == {"READY", "RUNNING", "RETRY_WAIT"}

-----------------------------------------------------------------------------
Present(st) == {s \in Steps : st[s] # "ABSENT"}

AllTerminal(st, S) == \A s \in S : st[s] \in Terminal

DiscoveredQueries(st) == {q \in Queries : st[Discovery(q)] = "SUCCEEDED"}
ExtractedSources(st)  == {s \in Sources : st[Extract(s)] = "SUCCEEDED"}

\* The pipeline_degradation_codes of the synthesis input.  (The code of the
\* error that ended the current step is added to them; it is not modelled.)
Degradations(st) ==
    {<<s.type, st[s]>> :
        s \in {x \in Steps \ {Synthesize} : st[x] \in {"FAILED", "CANCELLED"}}}

\* Mutant: the first discovery to end is enough.
SelectAtOnce(st) == {Select}

\* _maybe_select: join of the discoveries.
MaybeSelect(st) ==
    LET rows == Present(st) \cap Discoveries
    IN  IF rows # {} /\ AllTerminal(st, rows) THEN {Select} ELSE {}

\* _maybe_synthesize: join of everything.
MaybeSynthesize(st) ==
    IF AllTerminal(st, Present(st) \ {Synthesize}) THEN {Synthesize} ELSE {}

\* The exception _maybe_verify makes for FAST runs: while some sources are
\* still being fetched, direct hits that cover every required fact are enough.
CoveredEarly(sources) ==
    /\ Mode = "FAST"
    /\ sources \subseteq Direct
    /\ RequiredFacts # {}
    /\ RequiredFacts \subseteq UNION {FactsOf[s] : s \in sources}

\* Mutant: nothing more to do once there is a VERIFY step.
VerifyOnce(st) ==
    LET joined    == AllTerminal(st, Present(st) \cap (Fetches \cup Extracts))
        extracted == ExtractedSources(st)
    IN  IF st[Verify] # "ABSENT" THEN {}
        ELSE IF extracted = {} /\ joined THEN MaybeSynthesize(st)
        ELSE IF joined \/ CoveredEarly(extracted) THEN {Verify}
        ELSE {}

\* _maybe_verify: join of the fetches and the extracts.
MaybeVerify(st) ==
    LET joined    == AllTerminal(st, Present(st) \cap (Fetches \cup Extracts))
        extracted == ExtractedSources(st)
    IN  IF st[Verify] # "ABSENT" THEN
            IF joined /\ st[Verify] \in Terminal THEN MaybeSynthesize(st) ELSE {}
        ELSE IF extracted = {} THEN
            IF joined THEN MaybeSynthesize(st) ELSE {}
        ELSE IF joined \/ CoveredEarly(extracted) THEN {Verify}
        ELSE {}

(***************************************************************************)
(* on_success: the steps that the success of step s asks for, given the    *)
(* fan-out its output contains: a set of queries for PLAN, a set of        *)
(* sources for SELECT.                                                     *)
(***************************************************************************)
AfterSuccess(st, s, fanout) ==
    CASE s.type = "ROUTE"      -> {Plan}
      [] s.type = "PLAN"       -> IF fanout = {} THEN MaybeSynthesize(st)
                                  ELSE {Discovery(q) : q \in fanout}
      [] s.type = "DISCOVERY"  -> MaybeSelect(st)
      [] s.type = "SELECT"     -> IF fanout = {} THEN MaybeSynthesize(st)
                                  ELSE {Fetch(x) : x \in fanout}
      [] s.type = "FETCH"      -> {Extract(s.id)}
      [] s.type = "EXTRACT"    -> MaybeVerify(st)
      [] s.type = "VERIFY"     -> MaybeSynthesize(st)
      [] s.type = "SYNTHESIZE" -> {}

\* on_failure fails the whole run for these steps.
FailsRun(s) == s.type \in {"ROUTE", "PLAN", "SYNTHESIZE"}

\* on_failure: the steps that the failure of any other step asks for.
AfterFailure(st, s) ==
    CASE s.type = "DISCOVERY"            -> MaybeSelect(st)
      [] s.type \in {"FETCH", "EXTRACT"} -> MaybeVerify(st)
      [] s.type \in {"SELECT", "VERIFY"} -> MaybeSynthesize(st)
      [] OTHER                           -> {}

\* _add_step leaves a step alone whose row exists.
Missing(st, wanted) == {s \in wanted : st[s] = "ABSENT"}
=============================================================================
