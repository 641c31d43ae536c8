------------------------------ MODULE EvidenceRules ------------------------------
(* From extracted documents to accepted evidence and coverage: candidate_selector.py, *)
(* model_verifier.py, builder.py, coverage.py.                                        *)
(* A fact's id is its position in the plan. A document is                             *)
(*   [url, site, chunks, recent, facts]: where it was finally read, its publisher,    *)
(*   its chunks in order, whether its date passes the page's age limit, and the ids   *)
(*   it was found for; a chunk is [says, overlap]: the statements in it and how much  *)
(*   of the facts' wording it repeats (0 none, 1 some, 2 a score of at least 0.8).    *)
(* The documents are a function of their place in the order they were read.          *)
EXTENDS ReviewedCatalog

MaxPerFact == 3
MaxCandidates == 8

-----------------------------------------------------------------------------------
(* Candidates.                                                                      *)

(* The wording a purpose, release or table fact is recognised by gives its chunk    *)
(* the top score, however little else the chunk repeats.                            *)
RecognisedBy(words, statement) == [words |-> words, statement |-> statement]
ReleaseRelations ==
  { RecognisedBy({s}, s) :
      s \in {"rust_latest", "python_latest", "node_lts", "git_latest", "current_release",
             "bloodhound_tactical_changes", "bloodhound_ultimate_changes",
             "community_bloodhound_meta", "current_map_rotation", "ranked_rules_changes",
             "community_team_composition_frequency", "community_team_composition_performance"} }
DefinitionRelations ==
  { RecognisedBy({"object", "object types"}, "git_object_types"),
    RecognisedBy({"object", "blob"}, "blob_purpose"), RecognisedBy({"object", "tree"}, "tree_purpose"),
    RecognisedBy({"object", "commit"}, "commit_purpose"), RecognisedBy({"object", "tag"}, "tag_purpose"),
    RecognisedBy({"cap", "tradeoff"}, "cap_partition_tradeoff"),
    RecognisedBy({"201"}, "201"), RecognisedBy({"204"}, "204") }

Score(fact, chunk) ==
  IF \E r \in ReleaseRelations \cup DefinitionRelations :
       r.words \subseteq fact.text /\ r.statement \in chunk.says
  THEN 3 ELSE chunk.overlap

(* "place" is the document's place among those read, "ordinal" the chunk's in it.    *)
Candidate(id, fact, entity, doc, place, k) ==
  [id |-> id, fact |-> fact, url |-> doc.url, site |-> doc.site,
   authority |-> classify(doc.site, entity), recent |-> doc.recent, place |-> place,
   ordinal |-> k, says |-> doc.chunks[k].says, score |-> Score(fact, doc.chunks[k])]

CandidatesOf(id, fact, entity, documents) ==
  { c \in UNION { { Candidate(id, fact, entity, documents[d], d, k) : k \in DOMAIN documents[d].chunks } :
                  d \in {x \in DOMAIN documents : id \in documents[x].facts} } : c.score > 0 }

(* Official sources first, then by score, publisher and ordinal; documents that are *)
(* equal in all of them keep their place.                                           *)
PublisherOrder ==
  <<"apexranked/meta", "deepseek.com", "ea.com", "games.gg/tiers", "git-scm.com", "iana.org",
    "ibm.com", "node/releases", "openai/models", "postgresql.org", "python.org",
    "rfc-editor.org", "rust/releases", "sqlite/copyright", "web/1", "web/2", "web/3", "web/4",
    "web/5", "web/6", "web/7", "web/8", "web/a", "web/b", "elsewhere">>
PublisherRank(site) == SelectInSeq(PublisherOrder, LAMBDA s : s = site)
Rank(c) == (IF c.authority = "OFFICIAL" THEN 0 ELSE 3) + (4 - c.score)
RankKey(c) == 10000 * Rank(c) + 100 * PublisherRank(c.site) + 10 * c.ordinal + c.place

(* One candidate of each publisher comes before the rest.                           *)
Deferred(c, cs) == \E o \in cs : o.site = c.site /\ RankKey(o) < RankKey(c)
Before(a, b, cs) ==
  IF Deferred(a, cs) = Deferred(b, cs) THEN RankKey(a) < RankKey(b) ELSE Deferred(b, cs)
Position(c, cs) == Cardinality({o \in cs : Before(o, c, cs)})

(* The facts take turns, each with its best candidates in order.                    *)
SelectCandidates(entity, facts, documents) ==
  LET found == [id \in DOMAIN facts |-> CandidatesOf(id, facts[id], entity, documents)]
      turn == [c \in UNION {found[id] : id \in DOMAIN facts} |-> Position(c, found[c.id])]
      best == {c \in DOMAIN turn : turn[c] < MaxPerFact}
      earlier(o, c) == turn[o] < turn[c] \/ (turn[o] = turn[c] /\ o.id < c.id)
  IN  {c \in best : Cardinality({o \in best : earlier(o, c)}) < MaxCandidates}

Take(s, n) == SubSeq(s, 1, IF Len(s) < n THEN Len(s) ELSE n)

-----------------------------------------------------------------------------------
(* The deterministic adapters. An ask is what the adapter looks for when the fact   *)
(* has these words: the first of "says" the chunk has is quoted. Asks are tried in  *)
(* order and the first that fits the fact is the only one.                          *)
Ask(when, says) == [when |-> when, says |-> says]
Same(names) == [i \in 1..Len(names) |-> Ask({names[i]}, <<names[i]>>)]
AnyPage == {"any"}
Adapter(by, pages, about, asks) ==
  [by |-> by, pages |-> pages, authority |-> "OFFICIAL", about |-> about, score |-> 0,
   fresh |-> FALSE, first_chunk |-> FALSE, types |-> FactType, asks |-> asks]

dns_registry == <<Adapter("dns", {"ports.csv", "ports.xhtml", "ports.xhtml?search=53"}, {"dns"},
                          <<Ask({}, <<"dns rows">>)>>)>>
python_origin == <<Adapter("python_origin", {"python/license-2.1", "python/history"}, {"python"},
                           <<Ask({"creator"}, <<"python_creator">>),
                             Ask({"first release"}, <<"python_first_release_year">>)>>)>>
json_literals == <<Adapter("json", {"rfc8259"}, {"json", "literal"}, <<Ask({}, <<"literal names">>)>>)>>
http_created_no_content ==
  <<Adapter("http_status", {"rfc9110"}, {},
            <<Ask({"201", "204"}, <<"204", "201">>), Ask({"201"}, <<"201">>), Ask({"204"}, <<"204">>)>>)>>
(* The only two adapters that ask for a publisher and not for a page or authority. *)
IbmPages == {"ibm/cap", "ibm/transactions", "moved ibm.com"}
acid_property ==
  <<[Adapter("acid", IbmPages, {}, <<
      Ask({"atomicity"}, <<"acid_atomicity">>), Ask({"consistency"}, <<"acid_consistency">>),
      Ask({"isolation"}, <<"acid_isolation">>), Ask({"durability"}, <<"acid_durability">>)>>)
     EXCEPT !.authority = "ANY"]>>
cap_theorem ==
  <<[Adapter("cap", IbmPages, {"cap"}, <<Ask({"consistency"}, <<"cap_consistency">>),
      Ask({"availability"}, <<"cap_availability">>),
      Ask({"partition", "tolerance"}, <<"cap_partition_tolerance">>),
      Ask({"tradeoff"}, <<"cap_partition_tradeoff">>)>>)
     EXCEPT !.authority = "ANY"]>>
sqlite_licensing ==
  <<Adapter("sqlite", {"sqlite/copyright"}, {"sqlite"},
            <<Ask({"option"}, <<"warranty of title">>), Ask({"public domain"}, <<"public domain">>),
              Ask({}, <<"warranty of title">>)>>)>>
deepseek_pricing ==
  <<Adapter("deepseek_pricing", {"deepseek/pricing"}, {"v4 flash"},
            <<Ask({"cache hit"}, <<"cache_hit_price">>), Ask({"cache miss"}, <<"cache_miss_price">>),
              Ask({"output price"}, <<"output_price">>), Ask({"context length"}, <<"context_length">>),
              Ask({"maximum output"}, <<"maximum_output">>), Ask({"json output"}, <<"json_output">>)>>)>>
reviewed_release ==
  <<[Adapter("release", {"rust/releases"}, {}, Same(<<"rust_latest">>)) EXCEPT !.first_chunk = TRUE],
    Adapter("release", {"python/downloads"}, {}, Same(<<"python_latest">>)),
    Adapter("release", {"node/releases"}, {}, Same(<<"node_lts">>)),
    Adapter("release", {"git-scm"}, {}, Same(<<"git_latest">>)),
    [Adapter("release", {"ea/overclocked", "ea/midseason"}, {}, Same(<<"current_release">>))
      EXCEPT !.fresh = TRUE]>>
apex_reviewed_fact ==
  <<[Adapter("apex", {"ea/breach"}, {}, Same(<<"bloodhound_tactical_changes", "bloodhound_ultimate_changes">>))
      EXCEPT !.fresh = TRUE],
    [Adapter("apex", {"ea/midseason"}, {}, Same(<<"current_map_rotation", "ranked_rules_changes">>))
      EXCEPT !.fresh = TRUE],
    [Adapter("apex", {"apexranked/meta"}, {},
             Same(<<"community_bloodhound_meta", "community_team_composition_frequency",
                    "community_team_composition_performance">>))
      EXCEPT !.fresh = TRUE, !.authority = "INDEPENDENT"]>>
postgresql_support ==
  <<Adapter("pg_support", {"pg/versioning"}, {"postgresql", "supported"},
            Append(Same([i \in 1..5 |-> Row(i)]), Ask({}, <<"whole table">>)))>>
git_file_state == <<Adapter("git_state", {"git/book"}, {"git"}, Same(<<"modified", "staged", "committed">>))>>
git_object_model ==
  <<[Adapter("git_object", {"gitdatamodel"}, {"git"},
             <<Ask({"object types"}, <<"git_object_types">>), Ask({"blob"}, <<"blob_purpose">>),
               Ask({"tree"}, <<"tree_purpose">>), Ask({"commit"}, <<"commit_purpose">>),
               Ask({"tag"}, <<"tag_purpose">>)>>) EXCEPT !.score = 1]>>
(* It quotes the table wherever the method has a row, whatever the cells say.       *)
registry_boolean ==
  <<[Adapter("registry_table", {"http-methods"}, {"method", "property"}, <<Ask({}, <<"GET row">>)>>)
      EXCEPT !.score = 2]>>
registry_media_type ==
  <<[Adapter("registry_media", {"media-types/json"}, {"json", "media type"}, <<Ask({}, <<"json_media_type">>)>>)
      EXCEPT !.score = 1]>>
sha_digest_size ==
  <<[Adapter("sha", {"rfc6234.txt"}, {"sha-256", "digest", "size"}, <<Ask({}, <<"sha256_digest_size">>)>>)
      EXCEPT !.score = 1]>>
rfc_protocol_title ==
  <<[Adapter("rfc_title", {"rfc8446.txt"}, {"tls", "rfc"}, <<Ask({}, <<"tls13_rfc">>)>>) EXCEPT !.score = 1]>>
rfc3339_utc ==
  <<[Adapter("rfc3339", {"rfc3339.txt"}, {"rfc 3339"},
             <<Ask({"example", "+00:00"}, <<"Z or +00:00", "Z timestamp">>),
               Ask({"example", "Z"}, <<"Z timestamp", "Z suffix">>),
               Ask({"+00:00"}, <<"Z or +00:00">>), Ask({"Z"}, <<"Z suffix">>)>>) EXCEPT !.score = 1]>>
postgresql_isolation ==
  <<[Adapter("pg_isolation", {"pg/isolation"}, {"isolation"},
             Append(Same(<<"read uncommitted", "read committed", "repeatable read", "serializable">>),
                    Ask({"anomaly"}, <<"anomaly table">>))) EXCEPT !.score = 1]>>
(* Any official page: all the terms a description lists, or words after its number. *)
explicit_terms ==
  <<[Adapter("explicit_terms", AnyPage, {"listed terms"}, <<Ask({}, <<"listed terms">>)>>) EXCEPT !.score = 2]>>
explicit_value ==
  <<[Adapter("explicit_value", AnyPage, {"number"}, <<Ask({}, <<"numbered words">>)>>)
      EXCEPT !.score = 2, !.types = Now]>>

Adapters ==
  dns_registry \o python_origin \o json_literals \o http_created_no_content \o acid_property
  \o cap_theorem \o sqlite_licensing \o deepseek_pricing \o reviewed_release \o apex_reviewed_fact
  \o postgresql_support \o git_file_state \o git_object_model \o registry_boolean
  \o registry_media_type \o sha_digest_size \o rfc_protocol_title \o rfc3339_utc
  \o postgresql_isolation \o explicit_terms \o explicit_value

(* What the reviewed pages say when they read as the adapters expect.               *)
PublishedPages ==
  LET pages == UNION {a.pages : a \in ToSet(Adapters)} \cup {"http-status-codes.csv", "rfc9110#404"}
  IN  [page \in pages |->
        UNION { UNION {ToSet(ask.says) : ask \in ToSet(a.asks)} :
                  a \in {x \in ToSet(Adapters) :
                           /\ page \in x.pages
                           /\ <<x.by, page>> \notin {<<"acid", "ibm/cap">>, <<"cap", "ibm/transactions">>}} }
        \cup (IF page \in {"http-status-codes.csv", "rfc9110#404"} THEN {"numbered words"} ELSE {})]
Published(page) == IF page \in DOMAIN PublishedPages THEN PublishedPages[page] ELSE {}

Looks(a, c) ==
  /\ a.pages = AnyPage \/ c.url \in a.pages
  /\ a.authority \in {c.authority, "ANY"}
  /\ c.fact.fact_type \in a.types
  /\ a.about \subseteq c.fact.text
  /\ c.score >= a.score
  /\ a.fresh => c.recent
  /\ a.first_chunk => c.ordinal = 1

(* The statement an adapter quotes from a candidate, if any.                        *)
QuoteOf(a, c) ==
  IF ~Looks(a, c) THEN Nothing
  ELSE LET asked == SelectInSeq(a.asks, LAMBDA ask : ask.when \subseteq c.fact.text)
           says == IF asked = 0 THEN <<>> ELSE a.asks[asked].says
           said == SelectInSeq(says, LAMBDA s : s \in c.says)
       IN  IF said = 0 THEN Nothing ELSE says[said]

NoProposal == [by |-> "none", quote |-> Nothing]
deterministic_proposal(c) ==
  LET i == SelectInSeq(Adapters, LAMBDA a : QuoteOf(a, c) # Nothing)
  IN  IF i = 0 THEN NoProposal ELSE [by |-> Adapters[i].by, quote |-> QuoteOf(Adapters[i], c)]

-----------------------------------------------------------------------------------
(* Verification. An item is one candidate with its verdict; every candidate gets    *)
(* one, so that the audit is complete.                                              *)
Item(c, verdict, support, by, quote) ==
  [id |-> c.id, url |-> c.url, site |-> c.site, authority |-> c.authority, recent |-> c.recent,
   ordinal |-> c.ordinal, verdict |-> verdict, support |-> support, by |-> by, quote |-> quote]
Excerpt == "the excerpt"   \* the window around the matched words
Rejected(c) == Item(c, "REJECTED", "SUPPORTS", "audit", Excerpt)
Proposed(c) ==
  LET p == deterministic_proposal(c)
  IN  IF p = NoProposal THEN Rejected(c) ELSE Item(c, "ACCEPTED", "SUPPORTS", p.by, p.quote)

Accepted(items) == {i \in items : i.verdict = "ACCEPTED"}
Deterministic(candidates) == {Proposed(c) : c \in candidates}
ResolvedFacts(candidates) == {i.id : i \in Accepted(Deterministic(candidates))}

(* A fact that reports the silence of sources is not shown to the model.            *)
AbsenceMarkers ==
  {"evidence_gap", "no official source discloses", "no official public source",
   "no independent public source", "no current public source", "no public source can"}
requires_source_set_absence(c) == AbsenceMarkers \cap c.fact.text # {}

never_stale(c) == FALSE
is_stale_reviewed_current(c) ==
  /\ ~c.recent
  /\ \/ c.url = "ea/midseason" /\ "midseason" \in c.fact.text
     \/ c.url = "ea/breach" /\ "breach" \in c.fact.text
     \/ c.url = "apexranked/meta" /\ "live table" \in c.fact.text

ModelCandidates(candidates) ==
  LET resolved == ResolvedFacts(candidates)
  IN  { c \in candidates : /\ c.id \notin resolved
                           /\ ~requires_source_set_absence(c)
                           /\ ~is_stale_reviewed_current(c) }

(* A reply the parser lets through: at most one verdict for a fact, on a candidate  *)
(* of that fact, with an exact quote. A verdict is [candidate, support, bound]; it   *)
(* is bound when its quote says of OpenAI's next or unreleased model that its        *)
(* weights are not available.                                                        *)
WellFormedReply(reply, offered) ==
  /\ \A v \in reply : v.candidate \in offered
  /\ \A v, w \in reply : v.candidate.id = w.candidate.id => v = w

NeverStated == {"evidence_gap", "evidence gap", "no official source discloses"}
PrivateFuture == {"unreleased", "next model", "private"}
semantically_admissible(v) ==
  LET text == v.candidate.fact.text
  IN  /\ NeverStated \cap text = {}
      /\ "weight" \in text /\ PrivateFuture \cap text # {} => v.bound

ModelAccepted(reply) ==
  { Item(v.candidate, "ACCEPTED", v.support, "model", Excerpt) :
      v \in {w \in reply : semantically_admissible(w)} }

(* Everything not accepted is recorded as rejected.                                 *)
CompleteAudit(candidates, accepted) ==
  LET audited == {<<i.id, i.url, i.ordinal>> : i \in accepted}
  IN  accepted \cup { Rejected(c) : c \in {x \in candidates : <<x.id, x.url, x.ordinal>> \notin audited} }

-----------------------------------------------------------------------------------
(* Coverage of one fact.                                                            *)
Coverage(id, items) ==
  LET accepted == {i \in Accepted(items) : i.id = id}
      supports == {i \in accepted : i.support = "SUPPORTS"}
      official == \E i \in accepted : i.authority = "OFFICIAL"
      independent == {i.site : i \in {x \in accepted : x.authority = "INDEPENDENT"}}
  IN  IF accepted = {} THEN "OPEN"
      ELSE IF supports # {} /\ supports # accepted THEN "PARTIAL"
      ELSE IF official \/ Cardinality(independent) >= 2 THEN "VERIFIED"
      ELSE "COVERED"
====
