------------------------------ MODULE SourceSelection ------------------------------
(* From queries to the pages worth fetching: the providers' hits, their merge by     *)
(* canonical address and the choice of a few of them (SearchStepOperations.select    *)
(* and _select_ranked_hits). A hit's score is in percent.                            *)
EXTENDS SearchPlanning

MaxSelectedHits == 4

(* What web search returns for a query: two pages of two unknown publishers that it  *)
(* finds for every fact, or one page that is about the query's fact alone.           *)
OwnPages == <<"web/1", "web/2", "web/3", "web/4", "web/5", "web/6", "web/7", "web/8">>
WebPages(query, web) == IF web = "own" THEN <<OwnPages[query.fact]>> ELSE <<"web/a", "web/b">>
Hit(url, provider, rank, score, id, entity) ==
  [url |-> url, provider |-> provider, rank |-> rank, score |-> score, facts |-> {id},
   site |-> Site(url), official |-> classify(Site(url), entity) = "OFFICIAL"]
DirectHits(query, entity) ==
  [r \in 1..Len(query.urls) |-> Hit(query.urls[r], "direct", r, 100 - 5 * (r - 1), query.fact, entity)]
WebHits(query, entity, web) ==
  [r \in 1..Len(WebPages(query, web)) |->
    Hit(WebPages(query, web)[r], "web", r, 90 - 10 * (r - 1), query.fact, entity)]
Response(query, entity, web) ==
  [failed |-> "web" \in query.providers /\ web = "error",
   hits |-> DirectHits(query, entity)
            \o (IF "web" \in query.providers /\ web \in {"hits", "own"}
                THEN WebHits(query, entity, web) ELSE <<>>)]

-----------------------------------------------------------------------------------
(* Hits of the same address are one candidate: all its facts, its best score. Hits  *)
(* of an address with the same score differ in their fact only, so that it does not *)
(* matter which of them came first.                                                 *)
MergedHit(hits, url) ==
  LET same == {h \in hits : h.url = url}
      best == CHOOSE h \in same : \A o \in same : o.score <= h.score
  IN  [best EXCEPT !.facts = UNION {h.facts : h \in same}]
MergeHits(hits) == {MergedHit(hits, url) : url \in {h.url : h \in hits}}

(* Official, then direct, then by score and rank, then by address.                  *)
AddressOrder ==
  <<"apexranked/meta", "deepseek/news", "deepseek/pricing", "openai/models", "python/devguide",
    "rust/releases", "python/history", "games.gg/tiers", "git-scm", "git/book", "gitdatamodel",
    "node/releases", "ea/breach", "ea/midseason", "ea/overclocked", "http-methods",
    "http-status-codes.csv", "media-types/json", "ports.csv", "ports.xhtml",
    "ports.xhtml?search=53", "ibm/cap", "ibm/transactions", "pg/isolation", "pg/versioning",
    "python/license-2.1", "python/downloads", "rfc3339.html", "rfc3339.txt", "rfc6234.html",
    "rfc6234.txt", "rfc8259", "rfc8446.txt", "rfc9110", "rfc9110#404", "sqlite/copyright",
    "web/1", "web/2", "web/3", "web/4", "web/5", "web/6", "web/7", "web/8", "web/a", "web/b">>
AddressRank(url) == SelectInSeq(AddressOrder, LAMBDA u : u = url)
Flag(b) == IF b THEN 0 ELSE 1
HitKey(h) == 200000 * Flag(h.official) + 100000 * Flag(h.provider = "direct")
             + 500 * (100 - h.score) + 50 * (h.rank - 1) + AddressRank(h.url)

DirectOfficial(h) == h.official /\ h.provider = "direct"
CoveredBy(hits) == UNION {h.facts : h \in hits}

(* The hits chosen so far, in order, and the ones left.                              *)
Start(hits) == [chosen |-> <<>>, left |-> hits]
Gain(h, state) == Cardinality(h.facts \ CoveredBy(ToSet(state.chosen)))
Seen(state, h) == \E o \in ToSet(state.chosen) : o.site = h.site

(* The hit of least key, and the first in the ranking of those.                      *)
Best(key) ==
  CHOOSE h \in DOMAIN key : \A o \in DOMAIN key :
    key[h] < key[o] \/ (key[h] = key[o] /\ HitKey(h) <= HitKey(o))
Pick(state, h) == [chosen |-> Append(state.chosen, h), left |-> state.left \ {h}]

(* FAST with several official pages listed for the facts: the two that together     *)
(* cover most of them. Otherwise the first official page, or two publishers.        *)
FastStep(state) ==
  IF state.left = {} THEN state ELSE Pick(state, Best([h \in state.left |-> 8 - Gain(h, state)]))
DiverseStep(state) ==
  IF state.left = {} THEN state ELSE Pick(state, Best([h \in state.left |-> Flag(~Seen(state, h))]))
SelectFast(hits) ==
  LET listed == {h \in hits : DirectOfficial(h)}
      first == DiverseStep(Start(hits))
  IN  IF Cardinality(listed) >= 2 THEN FastStep(FastStep(Start(listed))).chosen
      ELSE IF \E h \in hits : h.official THEN first.chosen ELSE DiverseStep(first).chosen

(* RESEARCH covers the facts first, from listed official pages while they add one,  *)
(* then looks for a second publisher.                                               *)
ResearchPool(state) ==
  LET gaining == {h \in state.left : Gain(h, state) > 0}
      trusted == {h \in gaining : DirectOfficial(h)}
  IN  IF gaining = {} THEN state.left ELSE IF trusted # {} THEN trusted ELSE gaining
ResearchKey(state, h) ==
  LET gain == Gain(h, state)
  IN  IF gain > 0
      THEN 1000 * (8 - gain) + 10 * Cardinality(h.facts) + 2 * Flag(h.official) + Flag(~Seen(state, h))
      ELSE 2 * Flag(~Seen(state, h)) + Flag(h.official)
SatisfiedByPublishers(state) ==
  /\ state.chosen # <<>>
  /\ \/ Cardinality({h.site : h \in ToSet(state.chosen)}) >= 2
     \/ \A h \in state.left : Seen(state, h)
Satisfied(state) ==
  /\ state.chosen # <<>>
  /\ CoveredBy(state.left) \subseteq CoveredBy(ToSet(state.chosen))
  /\ \/ Cardinality({h.site : h \in ToSet(state.chosen)}) >= 2
     \/ \A h \in state.left : Seen(state, h)
ResearchStep(state) ==
  IF state.left = {} \/ Satisfied(state) THEN state
  ELSE Pick(state, Best([h \in ResearchPool(state) |-> ResearchKey(state, h)]))
(* One step for each of the MaxSelectedHits.                                         *)
SelectResearch(hits) ==
  ResearchStep(ResearchStep(ResearchStep(ResearchStep(Start(hits))))).chosen

SelectHits(hits, mode) == IF mode = "FAST" THEN SelectFast(MergeHits(hits)) ELSE SelectResearch(MergeHits(hits))
====
