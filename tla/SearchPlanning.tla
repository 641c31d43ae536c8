------------------------------ MODULE SearchPlanning ------------------------------
(* How a message becomes a mode, a list of facts and a list of queries: router.py,   *)
(* planner.py, the two planners of search_operations.py and query_compiler.py.       *)
(* A message is the record of what its wording triggers:                             *)
(*   matches   the reviewed template families it matches                             *)
(*   types     the fact types the router recognises                                  *)
(*   signals   the other routing patterns it matches                                 *)
(*   cues      pairs <<pattern, number>> of the patterns that ask for several facts  *)
(*   scalar    it asks for one value only                                            *)
(*   optional  it allows optional facts                                              *)
(*   entity    what it is about                                                      *)
EXTENDS EvidenceRules

MaxFacts == 8
QueryLimit(mode) == IF mode = "FAST" THEN 4 ELSE 8
VariantsPerFact(mode) == IF mode = "FAST" THEN 1 ELSE 3

-----------------------------------------------------------------------------------
(* Routing.                                                                         *)
RoutingSignals ==
  {"high_consequence_cross_check", "complete_source_requirement", "explicit_cross_check",
   "enumerated_multi_fact", "explicit_research_request", "cross_context_universal_claim",
   "private_multi_attribute_request"}

RoutingReasons(m) ==
  { r \in {"three_or_more_required_facts"} : Cardinality(m.types) >= 3 }
  \cup { r \in {"comparison_or_multi_hop"} : "comparison" \in m.types }
  \cup { r \in {"fresh_multi_fact"} : "freshness" \in m.signals /\ Cardinality(m.types) >= 2 }
  \cup (m.signals \cap RoutingSignals)

Route(m) == IF RoutingReasons(m) # {} THEN "RESEARCH" ELSE "FAST"

-----------------------------------------------------------------------------------
(* The floor and the ceiling on the number of facts of a plan.                      *)
FixedFloor ==
  [cross_check |-> 2, both |-> 2, open_set |-> 5, origin_pair |-> 2, http_status |-> 4,
   public_domain |-> 2, source_split |-> 4, map_rank |-> 4, universal |-> 3]

CueFloor(m, cue, n) ==
  CASE cue \in DOMAIN FixedFloor -> FixedFloor[cue]
    [] cue \in {"scalar_enumeration", "enumeration_relation"} -> n + 1
    [] cue = "checklist_matrix" -> 2 * n
    [] cue = "source_count" /\ Cardinality(m.types) >= 2 -> n + 2
    [] OTHER -> n

minimum_fact_count(m) ==
  IF m.scalar THEN 1
  ELSE Min({MaxFacts, Max({1, Cardinality(m.types)} \cup {CueFloor(m, c[1], c[2]) : c \in m.cues})})
maximum_fact_count(m) == IF m.scalar THEN minimum_fact_count(m) ELSE MaxFacts

-----------------------------------------------------------------------------------
(* The planner's reply, a sequence of raw facts, and what the parser makes of it.   *)
(* A raw fact's kind is by its wording                                              *)
(*   lookup    a value to find                                                      *)
(*   citation  a request for citations only, which is dropped                       *)
(*   gap       the report of an evidence gap, which becomes a question about        *)
(*             independent disclosure and has the key "neutral" instead of its own  *)
(*   silence   another wording for the silence of official sources, which is kept   *)
(*   weights   the weights of an unreleased model                                   *)
RawGap(key, neutral, kind, type, required, consequence) ==
  [key |-> key, neutral |-> neutral, kind |-> kind, fact_type |-> type, required |-> required,
   consequence |-> consequence]
RawFact(key, kind, type, required, consequence) == RawGap(key, key, kind, type, required, consequence)

NormalizedKey(raw) == IF raw.kind = "gap" THEN raw.neutral ELSE raw.key
RawText(raw) ==
  CASE raw.kind = "silence" -> {"no official source discloses"}
    [] raw.kind = "weights" -> {"weight", "unreleased"}
    [] OTHER -> {}
ParsedFact(m, raw) ==
  [ Fact(NormalizedKey(raw), raw.fact_type, "STABLE",
         IF raw.kind = "gap" THEN "independent" ELSE "official", RawText(raw),
         IF raw.kind = "silence" THEN Nothing ELSE NormalizedKey(raw)) EXCEPT
      !.required = IF m.optional THEN raw.required ELSE TRUE,
      !.consequence = IF raw.consequence = "HIGH" /\ "high_consequence_cross_check" \notin RoutingReasons(m)
                      THEN "MEDIUM" ELSE raw.consequence ]

(* The members of a set by increasing rank.                                         *)
Sorted(rank) ==
  [n \in 1..Cardinality(DOMAIN rank) |->
    CHOOSE x \in DOMAIN rank : Cardinality({y \in DOMAIN rank : rank[y] < rank[x]}) = n - 1]

KeptFacts(reply) ==
  LET kept == {i \in DOMAIN reply : reply[i].kind # "citation"}
      place == Sorted([i \in kept |-> i])
  IN  [n \in 1..Cardinality(kept) |-> reply[place[n]]]
AcceptableRawKeys(m, reply) ==
  LET kept == KeptFacts(reply)
  IN  /\ Len(kept) \in minimum_fact_count(m)..maximum_fact_count(m)
      /\ \A i, j \in 1..Len(kept) : kept[i].key = kept[j].key => i = j
AcceptableReply(m, reply) ==
  LET kept == KeptFacts(reply)
  IN  /\ Len(kept) \in minimum_fact_count(m)..maximum_fact_count(m)
      /\ \A i, j \in 1..Len(kept) : NormalizedKey(kept[i]) = NormalizedKey(kept[j]) => i = j
ParseIntent(m, reply) ==
  LET kept == KeptFacts(reply)
  IN  Intent(m.entity, [i \in 1..Len(kept) |-> ParsedFact(m, kept[i])])

(* Without a model: one fact for each recognised type, then unnamed ones up to the  *)
(* floor.                                                                           *)
TypeOrder == <<"background", "character_changes", "comparison", "current_value",
               "patch_notes", "team_meta", "version">>
RequestedFact ==
  <<"requested_fact_1", "requested_fact_2", "requested_fact_3", "requested_fact_4",
    "requested_fact_5", "requested_fact_6", "requested_fact_7", "requested_fact_8">>
HeuristicFact(m, key, type) ==
  [ Fact(key, type, IF "freshness" \in m.signals THEN "CURRENT" ELSE "STABLE", "official", {}, key) EXCEPT
      !.consequence = IF "high_consequence_cross_check" \in m.signals THEN "HIGH" ELSE "LOW" ]
TypeRank(type) == SelectInSeq(TypeOrder, LAMBDA t : t = type)
HeuristicIntent(m) ==
  LET asked == IF m.types = {} THEN {"background"} ELSE m.types
      types == Sorted([t \in asked |-> TypeRank(t)])
      named == [i \in 1..Len(types) |-> HeuristicFact(m, types[i], types[i])]
      missing == minimum_fact_count(m) - Len(types)
      padding == [i \in 1..(IF missing > 0 THEN missing ELSE 0) |->
                    HeuristicFact(m, RequestedFact[Len(types) + i], "background")]
  IN  Intent(m.entity, named \o padding)

(* A plan: the intent, which planner made it, its model calls.                      *)
PlanBy(strategy, intent, calls) ==
  [strategy |-> strategy, intent |-> intent, llm_calls |-> calls, degraded |-> strategy = "heuristic"]
CallsAllowed(max_llm_calls) == Max({1, Min({2, max_llm_calls})})

(* The outcomes of planning. Each reply may be repaired once while calls remain; a  *)
(* planner that fails for good leaves the heuristic one.                            *)
Plans(m, replies, max_llm_calls) ==
  IF m.matches # {} THEN {PlanBy("reviewed_template", ReviewedTemplate(m.matches), 0)}
  ELSE { PlanBy("model", ParseIntent(m, r), calls) :
           r \in {x \in replies : AcceptableReply(m, x)}, calls \in 1..CallsAllowed(max_llm_calls) }
       \cup { PlanBy("heuristic", HeuristicIntent(m), calls) : calls \in 0..CallsAllowed(max_llm_calls) }

-----------------------------------------------------------------------------------
(* Queries. A query is [fact, urls, providers]; the facts take turns, first with    *)
(* their first variant, until the limit of the mode.                                *)
Turns(n, mode) == [i \in 1..(n * VariantsPerFact(mode)) |-> ((i - 1) % n) + 1]
Compile(plan, mode) ==
  LET facts == plan.intent.facts
      turns == Take(Turns(Len(facts), mode), QueryLimit(mode))
  IN  [q \in 1..Len(turns) |->
        LET urls == urls_for_fact(plan.intent.entity, facts[turns[q]])
        IN  [fact |-> turns[q], urls |-> urls,
             providers |-> IF plan.strategy = "reviewed_template" /\ urls # <<>>
                           THEN {"direct"} ELSE {"direct", "web"}]]
====
