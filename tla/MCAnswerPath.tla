------------------------------- MODULE MCAnswerPath -------------------------------
(* Every reviewed family alone in both modes, requests that match two families, and  *)
(* requests no template matches, each on an undisturbed web and with one page (or    *)
(* all of its pages) disturbed.                                                      *)
EXTENDS AnswerPath

CONSTANTS Conditions,   \* how one page, or every page of a request, may be disturbed
          Everywhere    \* how every page of a request may be disturbed

Message(matches, types, signals, cues, scalar, optional, entity) ==
  [matches |-> matches, types |-> types, signals |-> signals, cues |-> cues,
   scalar |-> scalar, optional |-> optional, entity |-> entity]
ReviewedMessage(matches) == Message(matches, {}, {}, {}, FALSE, FALSE, "any")
Asked(message, models, calls) ==
  [message |-> message, mode |-> Route(message), models |-> models, max_llm_calls |-> calls]

Research(message) == [message EXCEPT !.signals = @ \cup {"explicit_research_request"}]
TwoFamilies == {{"apex_private", "apex_bloodhound"}, {"postgresql_rows", "postgresql_major"}}
ReviewedMessages == { ReviewedMessage(f) : f \in {{x} : x \in ToSet(Families)} \cup TwoFamilies }
ReviewedRequests ==
  { Asked(m, TRUE, 2) : m \in ReviewedMessages \cup {Research(x) : x \in ReviewedMessages} }
  \cup { Asked(m, FALSE, 0) : m \in ReviewedMessages }

NovelMessages ==
  { Message({}, {"version"}, {"freshness"}, {}, TRUE, FALSE, "python"),
    Message({}, {"background", "comparison"}, {}, {<<"both", 0>>}, FALSE, FALSE, "git"),
    Message({}, {"background"}, {"high_consequence_cross_check"}, {<<"count", 3>>}, FALSE, TRUE, "novel"),
    Message({}, {"background"}, {"explicit_research_request"}, {<<"count", 5>>}, FALSE, FALSE, "novel") }
ManyFacts == {m \in NovelMessages : minimum_fact_count(m) > MaxSelectedHits}
NovelRequests == { Asked(m, models, 1) : m \in NovelMessages, models \in BOOLEAN }

MCReplies ==
  { <<RawFact("release", "lookup", "version", TRUE, "LOW")>>,
    <<RawFact("storage", "lookup", "background", FALSE, "LOW"), RawFact("links", "citation", "background", TRUE, "LOW"),
      RawFact("contrast", "lookup", "comparison", TRUE, "HIGH")>>,
    <<RawFact("cause", "lookup", "background", TRUE, "HIGH"), RawFact("effect", "lookup", "background", FALSE, "LOW"),
      RawGap("silence_evidence_gap", "silence_check", "gap", "background", TRUE, "LOW")>>,
    <<RawGap("x_evidence_gap", "x_check", "gap", "background", TRUE, "LOW"),
      RawGap("x_evidence-gap", "x_check", "gap", "background", TRUE, "LOW")>>,
    <<RawFact("weights", "weights", "background", TRUE, "LOW"), RawFact("silence", "silence", "background", TRUE, "LOW"),
      RawFact("fourth", "lookup", "background", TRUE, "LOW"), RawFact("fifth", "lookup", "background", TRUE, "LOW"),
      RawFact("sixth", "lookup", "background", TRUE, "LOW"), RawFact("seventh", "lookup", "background", TRUE, "LOW")>> }

PagesOf(r) ==
  LET intent == ReviewedTemplate(r.message.matches)
  IN  IF r.message.matches = {}
      THEN {"web/a"} \cup {p \in {"python/downloads", "gitdatamodel"} : classify(Site(p), r.message.entity) = "OFFICIAL"}
      ELSE UNION {ToSet(urls_for_fact(intent.entity, f)) : f \in ToSet(intent.facts)}
(* The other pages are read the same when they are stale.                             *)
AgeLimited == {"ea/midseason", "ea/breach", "apexranked/meta"}
MayBe(r) == IF r.message.matches = {} THEN {"down"} ELSE Conditions
World(ps, how, web) == [pages |-> ps, how |-> how, web |-> web]
WorldsOf(r) ==
  { World({}, "clear", "hits") }
  \cup { World({p}, how, "hits") : p \in PagesOf(r), how \in MayBe(r) \ {"stale"} }
  \cup { World({p}, how, "hits") : p \in PagesOf(r) \cap AgeLimited, how \in MayBe(r) \cap {"stale"} }
  \cup { World(PagesOf(r), how, "hits") : how \in MayBe(r) }
  \cup { World(PagesOf(r), how, "hits") : how \in IF r.message.matches = {} THEN {} ELSE Everywhere }
  \cup { World({}, "clear", web) : web \in IF r.message.matches = {} THEN {"error", "none"} ELSE {} }
  \cup { World({}, "clear", "own") : m \in {r.message} \cap (IF r.models THEN ManyFacts ELSE {}) }
MCScenarios ==
  UNION { {[request |-> r, world |-> w] : w \in WorldsOf(r)} : r \in ReviewedRequests \cup NovelRequests }
====
