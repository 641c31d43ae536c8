-------------------------------- MODULE AnswerPath --------------------------------
(* One run of the search pipeline with its data: the step operations of              *)
(* search_operations.py in the order the workflow coordinator releases them, from    *)
(* the message to the answer. StepExecution models how steps are claimed, retried    *)
(* and finalised; here a step succeeds or has failed for good.                       *)
EXTENDS SourceSelection

CONSTANTS Scenarios,        \* pairs of a request, [message, mode, models, max_llm_calls],
                            \* and a state of the web, [pages, how, web]
          Replies,          \* replies the planning model may give
          MaxStepFailures   \* bound on the steps that fail for good

(* What the router and the patterns of planner.py can make of a message, and a       *)
(* planner's reply. A key is never the statement that stands for no statement.       *)
IsMessage(m) ==
  /\ m.matches \subseteq ToSet(Families) /\ m.types \subseteq FactType
  /\ IsFiniteSet(m.cues) /\ \A c \in m.cues : c[2] \in Nat
  /\ m.scalar \in BOOLEAN /\ m.optional \in BOOLEAN
RawFacts ==
  [key : STRING \ {Nothing}, neutral : STRING \ {Nothing},
   kind : {"lookup", "citation", "gap", "silence", "weights"}, fact_type : FactType,
   required : BOOLEAN, consequence : {"LOW", "MEDIUM", "HIGH"}]

ASSUME ScenarioAssumption == \A s \in Scenarios : IsMessage(s.request.message)
ASSUME ReplyAssumption == \A r \in Replies : r \in Seq(RawFacts)
ASSUME FailureAssumption == MaxStepFailures \in Nat

VARIABLES request, world,
          step,        \* PLAN, DISCOVERY, SELECT, FETCH (to the end of VERIFY), SYNTHESIZE, DONE
          plan, queries, responses,
          selected,    \* the hits chosen, and for each the state of its FETCH and EXTRACT
          pages, order, \* the chosen hits in the order their fetches ended
          verify,      \* [status, documents]: the VERIFY step and what it reads, by place in "order"
          evidence,
          degraded,    \* the model roles that were replaced by a fallback
          asked,       \* the model roles that were called
          failed,      \* the types of the steps that failed for good
          last_error,  \* error code of the step that ended last
          answer
vars == <<request, world, step, plan, queries, responses, selected, pages, order, verify,
          evidence, degraded, asked, failed, last_error, answer>>

NoPlan == PlanBy("none", NoIntent, 0)
NoAnswer == [quality |-> "NONE", reason |-> "NONE", claims |-> {}, missing |-> {}, degraded |-> FALSE]
Facts == plan.intent.facts
FactIds == 1..Len(Facts)
Required == {id \in FactIds : Facts[id].required}

Init ==
  /\ \E s \in Scenarios : request = s.request /\ world = s.world
  /\ step = "PLAN"
  /\ plan = NoPlan /\ queries = <<>> /\ responses = <<>>
  /\ selected = <<>> /\ pages = <<>> /\ order = <<>>
  /\ verify = [status |-> "NONE", documents |-> <<>>]
  /\ evidence = {} /\ degraded = {} /\ asked = {} /\ failed = {}
  /\ last_error = "none" /\ answer = NoAnswer

-----------------------------------------------------------------------------------
(* PLAN and DISCOVERY.                                                              *)
Plan ==
  /\ step = "PLAN"
  /\ \E p \in Plans(request.message, Replies, request.max_llm_calls) :
       /\ plan' = p
       /\ queries' = Compile(p, request.mode)
       /\ asked' = IF p.llm_calls > 0 THEN {"planner"} ELSE {}
       /\ degraded' = IF p.degraded THEN {"planner"} ELSE {}
  /\ step' = "DISCOVERY"
  /\ UNCHANGED <<request, world, responses, selected, pages, order, verify, evidence, failed,
                 last_error, answer>>

MayFail(type) == Cardinality(failed) < MaxStepFailures /\ type \notin failed
FailedStep == [failed |-> FALSE, hits |-> <<>>]

(* The queries are independent steps; what they find does not depend on their order. *)
Discover ==
  /\ step = "DISCOVERY"
  /\ LET query == queries[Len(responses) + 1]
     IN  \/ /\ responses' = Append(responses, Response(query, plan.intent.entity, world.web))
            /\ last_error' = "none"
            /\ UNCHANGED failed
         \/ /\ MayFail("discovery")
            /\ responses' = Append(responses, FailedStep)
            /\ failed' = failed \cup {"discovery"}
            /\ last_error' = "phase_deadline_exceeded"
  /\ step' = IF Len(responses') = Len(queries) THEN "SELECT" ELSE "DISCOVERY"
  /\ UNCHANGED <<request, world, plan, queries, selected, pages, order, verify, evidence,
                 degraded, asked, answer>>

provider_failures == Cardinality({q \in 1..Len(responses) : responses[q].failed})
AllHits == UNION {ToSet(responses[q].hits) : q \in 1..Len(responses)}

Select ==
  /\ step = "SELECT"
  /\ selected' = SelectHits(AllHits, request.mode)
  /\ pages' = [i \in 1..Len(selected') |-> "QUEUED"]
  /\ step' = IF selected' = <<>> THEN "SYNTHESIZE" ELSE "FETCH"
  /\ last_error' = "none"
  /\ UNCHANGED <<request, world, plan, queries, responses, order, verify, evidence, degraded,
                 asked, failed, answer>>

-----------------------------------------------------------------------------------
(* FETCH and EXTRACT. What a page says depends on its state in this world. The       *)
(* statements of a long page are in several chunks, these ones in the last.          *)
LateStatements ==
  {"Z timestamp", "204", "warranty of title", "commit_purpose", "tag_purpose", "committed",
   "acid_durability", "cap_partition_tradeoff", "serializable", "json_output",
   "ranked_rules_changes", "bloodhound_ultimate_changes", "community_bloodhound_meta"}
How(page) == IF page \in world.pages THEN world.how ELSE "clear"
Chunk(says, overlap) == [says |-> says, overlap |-> overlap]
Chunks(page) ==
  CASE How(page) = "buried" -> [i \in 1..4 |-> IF i = 4 THEN Chunk(Published(page), 1) ELSE Chunk({}, 2)]
    [] How(page) = "reworded" -> <<Chunk({}, 2)>>
    [] How(page) = "split" -> <<Chunk(Published(page) \ LateStatements, 2),
                                Chunk(Published(page) \cap LateStatements, 2)>>
    [] How(page) = "numbered" -> <<Chunk({"numbered words"}, 2)>>
    [] OTHER -> <<Chunk(Published(page), 2)>>
(* A page has moved to another address of its publisher, or to another publisher.    *)
FinalUrl(page) ==
  CASE How(page) = "elsewhere" -> "elsewhere"
    [] How(page) = "moved" -> IF Site(page) = "ibm.com" THEN "moved ibm.com" ELSE "moved"
    [] OTHER -> page
FinalSite(page) == IF How(page) = "elsewhere" THEN "elsewhere" ELSE Site(page)
Document(hit) ==
  [url |-> FinalUrl(hit.url), site |-> FinalSite(hit.url), chunks |-> Chunks(hit.url),
   recent |-> How(hit.url) # "stale", facts |-> hit.facts]

Terminal(states) == \A i \in 1..Len(states) : states[i] \in {"EXTRACTED", "FAILED"}
(* The places, in the order the fetches ended, of the pages that were extracted.     *)
Extracted(states, ended) == {k \in 1..Len(ended) : states[ended[k]] = "EXTRACTED"}

(* FAST does not wait for the remaining pages once the listed ones already read were *)
(* found for every required fact.                                                    *)
EnoughForFast(hits) ==
  /\ request.mode = "FAST"
  /\ \A h \in hits : h.provider = "direct"
  /\ Required # {} /\ Required \subseteq CoveredBy(hits)

maybe_verify(states, ended) ==
  LET read == Extracted(states, ended)
  IN  IF /\ verify.status = "NONE" /\ read # {}
         /\ Terminal(states) \/ EnoughForFast({selected[ended[k]] : k \in read})
      THEN [status |-> "QUEUED", documents |-> [k \in read |-> Document(selected[ended[k]])]]
      ELSE verify

PageStep(i, state, ended, error) ==
  /\ pages' = [pages EXCEPT ![i] = state]
  /\ order' = ended
  /\ last_error' = error
  /\ failed' = IF state = "FAILED" THEN failed \cup {IF pages[i] = "QUEUED" THEN "fetch" ELSE "extract"}
               ELSE failed
  /\ verify' = IF state = "FETCHED" THEN verify ELSE maybe_verify(pages', order')
  /\ UNCHANGED <<request, world, step, plan, queries, responses, selected, evidence, degraded,
                 asked, answer>>

Fetch(i) ==
  /\ step = "FETCH" /\ pages[i] = "QUEUED"
  /\ IF How(selected[i].url) = "down" THEN PageStep(i, "FAILED", order, "http_error")
     ELSE \/ PageStep(i, "FETCHED", Append(order, i), "none")
          \/ MayFail("fetch") /\ PageStep(i, "FAILED", order, "phase_deadline_exceeded")

Extract(i) ==
  /\ step = "FETCH" /\ pages[i] = "FETCHED"
  /\ \/ PageStep(i, "EXTRACTED", order, "none")
     \/ MayFail("extract") /\ PageStep(i, "FAILED", order, "unsupported_content_type")

-----------------------------------------------------------------------------------
(* VERIFY.                                                                          *)
Candidates == SelectCandidates(plan.intent.entity, Facts, verify.documents)

(* The replies that differ to the rest of the run: the model settles every fact it  *)
(* was asked about, none, all but one, or one of them against the fact, with quotes  *)
(* that are bound to the model in question or not.                                   *)
VerifierReplies(offered) ==
  LET facts == {c.id : c \in offered}
      pick == [id \in facts |-> CHOOSE c \in offered : c.id = id]
      verdict(id, support, bound) == [candidate |-> pick[id], support |-> support, bound |-> bound]
      for(ids, bound) == {verdict(id, "SUPPORTS", bound) : id \in ids}
  IN  { for(ids, bound) : ids \in {{}, facts} \cup {facts \ {f} : f \in facts}, bound \in BOOLEAN }
      \cup { for(facts \ {f}, TRUE) \cup {verdict(f, "CONTRADICTS", TRUE)} : f \in facts }

Verified(items, fallback, roles) ==
  /\ evidence' = items
  /\ degraded' = degraded \cup fallback
  /\ asked' = asked \cup roles
  /\ verify' = [verify EXCEPT !.status = "SUCCEEDED"]
  /\ last_error' = "none"
  /\ UNCHANGED <<request, world, step, plan, queries, responses, selected, pages, order,
                 failed, answer>>

Verify ==
  /\ step = "FETCH" /\ verify.status = "QUEUED"
  /\ LET candidates == Candidates
         accepted == Accepted(Deterministic(candidates))
         offered == IF request.models THEN ModelCandidates(candidates) ELSE {}
     IN  IF offered = {} THEN Verified(CompleteAudit(candidates, accepted), {}, {})
         ELSE \/ Verified(CompleteAudit(candidates, accepted), {"verifier"}, {"verifier"})
              \/ \E reply \in VerifierReplies(offered) :
                   /\ WellFormedReply(reply, offered)
                   /\ Verified(CompleteAudit(candidates, accepted \cup ModelAccepted(reply)), {}, {"verifier"})

VerifyFails ==
  /\ step = "FETCH" /\ verify.status = "QUEUED" /\ MayFail("verify")
  /\ verify' = [verify EXCEPT !.status = "FAILED"]
  /\ failed' = failed \cup {"verify"}
  /\ last_error' = "phase_deadline_exceeded"
  /\ UNCHANGED <<request, world, step, plan, queries, responses, selected, pages, order,
                 evidence, degraded, asked, answer>>

-----------------------------------------------------------------------------------
(* SYNTHESIZE. A claim is about one fact and cites evidence of that fact.           *)
Claim(id, cited, text) == [fact |-> id, cited |-> cited, text |-> text, kind |-> "FACTUAL"]
AcceptedFor(id) == {i \in Accepted(evidence) : i.id = id}
SupportsFor(id) == {i \in AcceptedFor(id) : i.support = "SUPPORTS"}
EvidencedFacts == {i.id : i \in Accepted(evidence)}

(* The sentence the fallback writes of a fact, as the set of the statements it makes: *)
(* that of the first rule that fits the fact, the adapters that accepted the evidence *)
(* cited ("by"), its addresses and all its quotes. The rules that repeat the first    *)
(* quote, and a fact without a rule, give none: then it is the first quote.           *)
Sentence(fits, says) == [fits |-> fits, says |-> says]
GitPurposes == {"git_object_types", "blob_purpose", "tree_purpose", "commit_purpose", "tag_purpose"}
ExamplePremises == {"Z or +00:00", "Z timestamp"}
DatesTheExample(quotes) == ExamplePremises \subseteq quotes
SentencesByAdapter(text, by, quotes) ==
  << Sentence("dns" \in by, {"dns rows"}),
     Sentence("python_origin" \in by /\ "creator" \in text, {"python_creator"}),
     Sentence("python_origin" \in by /\ "first release" \in text, {"python_first_release_year"}),
     Sentence("json" \in by, {"literal names"}),
     Sentence("http_status" \in by, {"201", "204"} \cap quotes),
     Sentence("registry_table" \in by /\ {"idempotent", "safe"} \cap text # {}, {"GET row"}),
     Sentence(by \cap {"acid", "cap"} # {}, {}),
     Sentence("sqlite" \in by /\ "public domain" \in text /\ "option" \notin text, {"public domain"}),
     Sentence(by \cap {"sqlite", "deepseek_pricing", "pg_support", "pg_isolation", "git_state"} # {}, {}) >>
SentencesByQuote(fact, urls, quotes) ==
  << Sentence("gitdatamodel" \in urls /\ "git" \in fact.text /\ fact.key \in GitPurposes \cap quotes, {fact.key}),
     Sentence({"json", "media type"} \subseteq fact.text /\ "json_media_type" \in quotes, {"json_media_type"}),
     Sentence({"tls", "rfc"} \subseteq fact.text /\ "rfc8446.txt" \in urls, {"tls13_rfc"}),
     Sentence({"sha-256", "digest"} \subseteq fact.text /\ "sha256_digest_size" \in quotes, {"sha256_digest_size"}),
     Sentence({"rfc 3339", "example", "+00:00"} \subseteq fact.text /\ DatesTheExample(quotes), ExamplePremises) >>
derived_fallback_text(fact, cited) ==
  LET quotes == {i.quote : i \in cited}
      rules == SentencesByAdapter(fact.text, {i.by : i \in cited}, quotes)
               \o SentencesByQuote(fact, {i.url : i \in cited}, quotes)
      first == SelectInSeq(rules, LAMBDA r : r.fits)
  IN  IF first = 0 THEN {} ELSE rules[first].says
FallbackText(fact, cited) ==
  IF derived_fallback_text(fact, cited) # {} THEN derived_fallback_text(fact, cited)
  ELSE {(CHOOSE i \in cited : TRUE).quote}

(* The fallback uses what supports a fact; it never uses contradicting evidence.     *)
_fallback ==
  {Claim(id, SupportsFor(id), FallbackText(Facts[id], SupportsFor(id))) :
     id \in {f \in FactIds : SupportsFor(f) # {}}}

(* The claims the parser lets through: every fact with accepted evidence, citing     *)
(* some of that evidence and nothing else.                                           *)
ModelText == {"written by the model"}
ModelClaims ==
  { {Claim(id, AcceptedFor(id), ModelText) : id \in EvidencedFacts},
    {Claim(id, {CHOOSE i \in AcceptedFor(id) : TRUE}, ModelText) : id \in EvidencedFacts} }

(* CitationValidator: only accepted evidence of the claim's own fact is cited, and a *)
(* factual claim without any becomes an uncertainty.                                 *)
Validated(claims) ==
  { LET valid == {i \in c.cited : i.verdict = "ACCEPTED" /\ i.id = c.fact}
    IN  [c EXCEPT !.cited = valid, !.kind = IF valid = {} THEN "UNCERTAINTY" ELSE "FACTUAL"] : c \in claims }

ModelWrites == request.models /\ Accepted(evidence) # {} /\ \E i \in Accepted(evidence) : i.by = "model"

Supported(claims) == {c.fact : c \in {x \in claims : x.kind = "FACTUAL" /\ x.cited # {}}}
IsCompleteUndegraded(claims, fallbacks) ==
  /\ Required # {} /\ Required \subseteq Supported(claims)
  /\ \A id \in Required : Coverage(id, evidence) \in {"COVERED", "VERIFIED"}
  /\ fallbacks = {}
IsComplete(claims, fallbacks) ==
  /\ Required # {} /\ Required \subseteq Supported(claims)
  /\ \A id \in Required : Coverage(id, evidence) \in {"COVERED", "VERIFIED"}
  /\ fallbacks = {} /\ failed = {}

StopReason(claims, fallbacks, late) ==
  IF IsComplete(claims, fallbacks) THEN "FACTS_COVERED"
  ELSE IF late \/ last_error = "phase_deadline_exceeded" THEN "TIME_BUDGET"
  ELSE IF fallbacks # {} \/ (claims = {} /\ provider_failures > 0) THEN "PROVIDER_FAILURE"
  ELSE "INSUFFICIENT_EVIDENCE"

Write(proposals, fallback, roles) ==
  \E late \in BOOLEAN :
    LET claims == Validated(proposals)
        fallbacks == degraded \cup fallback
    IN  /\ answer' = [quality |-> IF IsComplete(claims, fallbacks) THEN "COMPLETE" ELSE "PARTIAL",
                      reason |-> StopReason(claims, fallbacks, late),
                      claims |-> claims, missing |-> Required \ Supported(claims),
                      degraded |-> fallbacks # {} \/ failed # {}]
        /\ degraded' = fallbacks
        /\ asked' = asked \cup roles

AllStepsEnded ==
  \/ step = "SYNTHESIZE"
  \/ /\ step = "FETCH" /\ Terminal(pages)
     /\ verify.status \in {"SUCCEEDED", "FAILED"} \/ Extracted(pages, order) = {}

Synthesize ==
  /\ AllStepsEnded
  /\ \/ ~ModelWrites /\ Write(_fallback, {}, {})
     \/ ModelWrites /\ Write(_fallback, {"synthesizer"}, {"synthesizer"})
     \/ ModelWrites /\ \E claims \in ModelClaims : Write(claims, {}, {"synthesizer"})
  /\ step' = "DONE"
  /\ UNCHANGED <<request, world, plan, queries, responses, selected, pages, order, verify,
                 evidence, failed, last_error>>

Next ==
  \/ Plan
  \/ Discover
  \/ Select
  \/ \E i \in 1..Len(pages) : Fetch(i) \/ Extract(i)
  \/ Verify
  \/ VerifyFails
  \/ Synthesize
  \/ step = "DONE" /\ UNCHANGED vars   \* the run is over; anything else that stops is a deadlock

Spec == Init /\ [][Next]_vars

-----------------------------------------------------------------------------------
(* The variables keep their types.                                                  *)
TypeOK ==
  /\ step \in {"PLAN", "DISCOVERY", "SELECT", "FETCH", "SYNTHESIZE", "DONE"}
  /\ Len(responses) <= Len(queries) /\ Len(queries) <= QueryLimit("RESEARCH")
  /\ Len(selected) <= MaxSelectedHits /\ Len(pages) = Len(selected)
  /\ \A i \in 1..Len(pages) : pages[i] \in {"QUEUED", "FETCHED", "EXTRACTED", "FAILED"}
  /\ verify.status \in {"NONE", "QUEUED", "SUCCEEDED", "FAILED"}
  /\ degraded \cup asked \subseteq {"planner", "verifier", "synthesizer"}
  /\ failed \subseteq {"discovery", "fetch", "extract", "verify"}
  /\ answer.quality \in {"NONE", "COMPLETE", "PARTIAL"}

Reviewed == plan.strategy = "reviewed_template"
Done == step = "DONE"
ReadFor(id) == {d.url : d \in {x \in ToSet(verify.documents) : id \in x.facts}}

(* A complete answer has, for every required fact, a claim whose every citation is  *)
(* accepted evidence from a page that was fetched and read for that very fact, and  *)
(* no step of the run failed and no model call was replaced by a fallback, however  *)
(* early FAST verification began (synthesize, _maybe_verify, CitationValidator).    *)
CompleteIsGrounded ==
  answer.quality = "COMPLETE" =>
    /\ \A id \in Required : \E c \in answer.claims : c.fact = id /\ c.cited # {}
    /\ \A c \in answer.claims : \A i \in c.cited :
         /\ i \in Accepted(evidence) /\ i.id = c.fact /\ i.url \in ReadFor(c.fact)
    /\ degraded = {} /\ failed = {} /\ \A i \in 1..Len(pages) : pages[i] = "EXTRACTED"

(* A question whose answer is that sources are silent is never answered: neither an  *)
(* adapter nor the model can turn an excerpt into proof of absence                   *)
(* (_requires_source_set_absence, reviewed_templates.py).                            *)
NothingProvesAbsence ==
  /\ \A i \in Accepted(evidence) : Facts[i.id].answer # Nothing
  /\ answer.quality = "COMPLETE" => \A id \in Required : Facts[id].answer # Nothing

(* When the reviewed pages read as expected and nothing fails, a reviewed request    *)
(* whose facts all have a selected page is answered completely and without a single  *)
(* model call, in whatever order its pages arrive: the four reviewed tables agree.   *)
PublishedIsAnswered ==
  (/\ Done /\ Reviewed /\ world.pages = {} /\ failed = {}
   /\ FactIds \subseteq CoveredBy(ToSet(selected))
   /\ \A id \in FactIds : Facts[id].answer # Nothing)
  => answer.quality = "COMPLETE" /\ asked = {}

(* A page past its age limit never supports a fact about the current state in a      *)
(* reviewed plan: not through an adapter and not through the model.                  *)
StaleIsNotCurrent ==
  \A i \in Accepted(evidence) :
    Reviewed /\ ~i.recent => i.url \notin {"ea/midseason", "ea/breach", "apexranked/meta"}


(* RESEARCH takes a page that adds no fact only when every fact for which a page was  *)
(* found is covered, and leaves a slot free only when it also has two publishers or   *)
(* all there are: with more facts than slots, a fact stays uncovered only because     *)
(* every slot went to a page that added another (_select_ranked_hits).                *)
ResearchUsesItsSlots ==
  (request.mode = "RESEARCH" /\ step \in {"FETCH", "SYNTHESIZE", "DONE"}) =>
    LET found == CoveredBy(AllHits)
        sites(hits) == {h.site : h \in hits}
        before(i) == CoveredBy({selected[j] : j \in 1..(i - 1)})
    IN  /\ \A i \in 1..Len(selected) : selected[i].facts \subseteq before(i) => before(i) = found
        /\ Len(selected) < MaxSelectedHits =>
             /\ CoveredBy(ToSet(selected)) = found
             /\ \/ Cardinality(sites(ToSet(selected))) >= 2
                \/ sites(AllHits) \subseteq sites(ToSet(selected))

(* Whichever planner made it, a plan has at least as many facts as the message asks  *)
(* for, at most eight, and does not call a fact optional that the message did not    *)
(* (IntentParser, HeuristicIntentPlanner).                                           *)
PlansMeetTheFloor ==
  (plan # NoPlan /\ ~Reviewed) =>
    /\ Len(Facts) \in minimum_fact_count(request.message)..MaxFacts
    /\ ~request.message.optional => Required = FactIds
    /\ \A i, j \in FactIds : Facts[i].key = Facts[j].key => i = j

(* The deterministic verifier quotes words that state the fact: "Lexical overlap is  *)
(* useful for ranking, but it is not entailment" (_fail_closed_fallback).            *)
QuoteStatesFact ==
  \A i \in Accepted(evidence) : Reviewed /\ i.by # "model" => i.quote = Facts[i.id].answer

(* A request with three or more required facts is a research request (design         *)
(* document, section 8.3).                                                           *)
ManyFactsAreResearched ==
  plan # NoPlan /\ Cardinality(Required) >= 3 => Route(request.message) = "RESEARCH"
====
