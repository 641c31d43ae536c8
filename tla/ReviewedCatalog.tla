------------------------------ MODULE ReviewedCatalog ------------------------------
(* The three reviewed tables a request without a model call rests on, and the       *)
(* look-ups in them:                                                                *)
(*   - reviewed_templates.py: request family -> required facts;                     *)
(*   - official_sources.py: entity and fact -> pages to fetch directly;             *)
(*   - source_authority.py: entity and page -> OFFICIAL or INDEPENDENT;             *)
(*   - model_verifier.py: the deterministic adapters, fact and page -> statement.   *)
(* The tables are kept apart in the code and joined only by the words of a fact.    *)
(* A fact's words (key, description and subject) are the set "text" of the markers  *)
(* that some rule or adapter looks for; a page's words are the statements on it.    *)
EXTENDS Integers, Sequences, FiniteSets, SequencesExt

FactType == {"character_changes", "version", "patch_notes", "team_meta",
             "current_value", "comparison", "background"}

(* "answer" is the statement of the page that answers the fact: no code reads it.   *)
Fact(key, type, freshness, sources, text, answer) ==
  [key |-> key, fact_type |-> type, freshness |-> freshness, sources |-> sources,
   text |-> text, answer |-> answer, required |-> TRUE, consequence |-> "LOW"]
Stable(key, text, answer) == Fact(key, "background", "STABLE", "official", text, answer)
Current(key, text) == Fact(key, "current_value", "CURRENT", "official", text, key)
Release(key, text) == Fact(key, "version", "CURRENT", "official", text, key)
Live(key) == Fact(key, "team_meta", "CURRENT", "independent", {"live table", "community", key}, key)
Independent(key, text) == Fact(key, "background", "STABLE", "independent", text, key)

(* What no excerpt can state: that a set of sources is silent.                      *)
Nothing == "no statement"
Gap(key, type, sources, text) ==
  Fact(key, type, "CURRENT", sources, text \cup {"evidence_gap"}, Nothing)
DisclosureReworded(key) == Fact(key, "background", "STABLE", "official", {"private"}, Nothing)
Disclosure(key) ==
  Fact(key, "background", "STABLE", "official", {"private", "no official source discloses"}, Nothing)

Intent(entity, facts) == [entity |-> entity, facts |-> facts]

Row(i) == <<"postgresql_supported_row_1", "postgresql_supported_row_2",
            "postgresql_supported_row_3", "postgresql_supported_row_4",
            "postgresql_supported_row_5">>[i]
Price(key, marker) == Current(key, {"price", "v4 flash", "number", marker})

GapTemplates ==
  [ apex_private |-> Intent("apex legends",
      <<Disclosure("public_disclosure_match_history"), Disclosure("public_disclosure_mmr"),
        Disclosure("public_disclosure_teammates_timestamps")>>),
    apex_private_mmr |-> Intent("apex legends", <<Disclosure("public_disclosure_mmr")>>),
    deepseek_unreleased |-> Intent("deepseek",
      <<Gap("unreleased_codename", "current_value", "official", {"no official public source", "unreleased"})>>),
    openai_weights |-> Intent("openai",
      <<Gap("weights_official", "current_value", "official",
            {"no official public source", "weight", "private", "unreleased"}),
        Gap("weights_independent", "current_value", "independent",
            {"no independent public source", "weight", "private", "unreleased"})>>),
    postgresql_unannounced |-> Intent("postgresql",
      <<Gap("unannounced_release_date", "current_value", "official",
            {"no official public source", "postgresql"})>>) ]
UniversalTemplates ==
  [ postgresql_global |-> Intent("postgresql",
      <<Gap("private_deployments", "current_value", "official",
            {"no official public source", "private", "postgresql"}),
        Gap("exact_global_total", "current_value", "independent",
            {"no independent public source", "private", "postgresql"})>>),
    apex_universal |-> Intent("apex legends",
      <<Gap("composition_rank_map", "team_meta", "independent", {"no current public source", "community"}),
        Gap("composition_region", "team_meta", "independent", {"no current public source", "community"}),
        Gap("composition_player_skill", "team_meta", "independent", {"no current public source", "community"})>>) ]

ApexTemplates ==
  [ postgresql_rows |-> Intent("postgresql",
      [i \in 1..5 |-> Current(Row(i), {"postgresql", "supported", "number", Row(i)})]),
    apex_maps |-> Intent("apex legends",
      <<Current("current_map_rotation", {"midseason", "patch", "current_map_rotation"}),
        Fact("ranked_rules_changes", "patch_notes", "RECENT", "official",
             {"midseason", "patch", "ranked_rules_changes"}, "ranked_rules_changes"),
        Live("community_team_composition_frequency"),
        Live("community_team_composition_performance")>>),
    apex_bloodhound |-> Intent("apex legends",
      <<Release("current_release", {"midseason", "patch", "current_release"}),
        Fact("bloodhound_tactical_changes", "character_changes", "RECENT", "official",
             {"breach", "bloodhound_tactical_changes"}, "bloodhound_tactical_changes"),
        Fact("bloodhound_ultimate_changes", "character_changes", "RECENT", "official",
             {"breach", "bloodhound_ultimate_changes"}, "bloodhound_ultimate_changes"),
        Live("community_bloodhound_meta")>>),
    apex_season |-> Intent("apex legends",
      <<[Release("current_season", {"midseason", "patch", "current_release"})
           EXCEPT !.answer = "current_release"]>>) ]

ReleaseTemplates ==
  [ python_latest |-> Intent("python", <<Release("python_latest", {"python", "supported", "python_latest"})>>),
    rust_latest |-> Intent("rust", <<Release("rust_latest", {"supported", "rust_latest"})>>),
    node_lts |-> Intent("node.js", <<Release("node_lts", {"node_lts"})>>),
    git_latest |-> Intent("git", <<Release("git_latest", {"git", "git_latest"})>>),
    postgresql_major |-> Intent("postgresql",
      <<[Release("postgresql_major", {"postgresql", "supported"})
           EXCEPT !.answer = "whole table"]>>),
    deepseek_prices |-> Intent("deepseek",
      <<Price("cache_hit_price", "cache hit"), Price("cache_miss_price", "cache miss"),
        Price("output_price", "output price"), Price("context_length", "context length"),
        Price("maximum_output", "maximum output"), Price("json_output", "json output")>>),
    deepseek_price |-> Intent("deepseek", <<Price("output_price", "output price")>>) ]

HttpTemplates ==
  [ http_created |-> Intent("http",
      <<Stable("http_201_semantics", {"201"}, "201"), Stable("http_201_content", {"201"}, "201"),
        Stable("http_204_semantics", {"204"}, "204"), Stable("http_204_content", {"204"}, "204")>>),
    http_get |-> Intent("http",
      <<Stable("http_get_safe", {"method", "property", "safe"}, "GET row"),
        Stable("http_get_idempotent", {"method", "property", "idempotent"}, "GET row")>>),
    http_404 |-> Intent("http",
      <<Fact("http_404_reason_phrase", "current_value", "STABLE", "official",
             {"number"}, "numbered words")>>),
    python_origin |-> Intent("python",
      <<Stable("python_creator", {"python", "creator"}, "python_creator"),
        Stable("python_first_release_year", {"python", "first release"}, "python_first_release_year")>>) ]

RegistryTemplates ==
  [ json_literals |-> Intent("json",
      <<Stable("json_literal_true", {"json", "literal"}, "literal names"),
        Stable("json_literal_false", {"json", "literal"}, "literal names"),
        Stable("json_literal_null", {"json", "literal"}, "literal names")>>),
    json_media |-> Intent("json", <<Stable("json_media_type", {"json", "media type"}, "json_media_type")>>),
    sha_256 |-> Intent("sha-256",
      <<Stable("sha256_digest_size", {"sha-256", "digest", "size"}, "sha256_digest_size")>>),
    dns_port |-> Intent("dns",
      <<Stable("dns_port", {"dns", "port"}, "dns rows"), Stable("dns_tcp", {"dns", "port"}, "dns rows"),
        Stable("dns_udp", {"dns", "port"}, "dns rows")>>),
    tls_rfc |-> Intent("tls 1.3", <<Stable("tls13_rfc", {"tls", "rfc"}, "tls13_rfc")>>) ]

GitTemplates ==
  [ git_objects |-> Intent("git",
      <<Stable("git_object_types", {"git", "object", "object types"}, "git_object_types"),
        Stable("blob_purpose", {"git", "object", "blob"}, "blob_purpose"),
        Stable("tree_purpose", {"git", "object", "tree"}, "tree_purpose"),
        Stable("commit_purpose", {"git", "object", "commit"}, "commit_purpose"),
        Stable("tag_purpose", {"git", "object", "tag"}, "tag_purpose")>>),
    git_states |-> Intent("git",
      <<Stable("git_state_modified", {"git", "state", "modified", "tree"}, "modified"),
        Stable("git_state_staged", {"git", "state", "staged", "tag"}, "staged"),
        Stable("git_state_committed", {"git", "state", "committed", "commit"}, "committed")>>) ]

ConceptTemplates ==
  [ acid |-> Intent("database acid",
      <<Independent("acid_atomicity", {"atomicity"}), Independent("acid_consistency", {"consistency"}),
        Independent("acid_isolation", {"isolation"}), Independent("acid_durability", {"durability"})>>),
    sqlite |-> Intent("sqlite",
      <<Stable("sqlite_public_domain", {"sqlite", "licence", "public domain"}, "public domain"),
        Stable("sqlite_jurisdiction_option", {"sqlite", "licence", "public domain", "option"},
               "warranty of title")>>),
    cap |-> Intent("cap theorem",
      <<Independent("cap_consistency", {"cap", "consistency"}),
        Independent("cap_availability", {"cap", "availability"}),
        Independent("cap_partition_tolerance", {"cap", "partition", "tolerance"}),
        Independent("cap_partition_tradeoff", {"cap", "partition", "tradeoff"})>>),
    rfc_3339 |-> Intent("rfc 3339",
      <<Stable("rfc3339_z", {"rfc", "rfc 3339", "utc", "Z"}, "Z suffix"),
        Stable("rfc3339_plus", {"rfc", "rfc 3339", "utc", "+00:00"}, "Z or +00:00"),
        Stable("rfc3339_examples", {"rfc", "rfc 3339", "utc", "example", "+00:00", "Z"}, "Z or +00:00")>>),
    postgresql_isolation |-> Intent("postgresql",
      [i \in 1..4 |->
        LET level == <<"read uncommitted", "read committed", "repeatable read", "serializable">>[i]
        IN  Fact(level, "comparison", "STABLE", "official",
                 {"postgresql", "isolation", level}, level)]) ]

(* The families in the order the function tries them: a request may match several.  *)
Families ==
  <<"apex_private", "apex_private_mmr", "deepseek_unreleased", "openai_weights",
    "postgresql_unannounced", "postgresql_global", "apex_universal", "postgresql_rows",
    "apex_maps", "apex_bloodhound", "apex_season", "http_created", "http_get", "http_404",
    "python_origin", "python_latest", "rust_latest", "node_lts", "git_latest",
    "postgresql_major", "deepseek_prices", "deepseek_price", "json_literals", "json_media",
    "sha_256", "dns_port", "tls_rfc", "git_objects", "git_states", "acid", "sqlite", "cap",
    "rfc_3339", "postgresql_isolation">>

NoIntent == Intent("none", <<>>)
TemplateOf(family) ==
  CASE family \in DOMAIN GapTemplates -> GapTemplates[family]
    [] family \in DOMAIN UniversalTemplates -> UniversalTemplates[family]
    [] family \in DOMAIN ApexTemplates -> ApexTemplates[family]
    [] family \in DOMAIN ReleaseTemplates -> ReleaseTemplates[family]
    [] family \in DOMAIN HttpTemplates -> HttpTemplates[family]
    [] family \in DOMAIN RegistryTemplates -> RegistryTemplates[family]
    [] family \in DOMAIN GitTemplates -> GitTemplates[family]
    [] family \in DOMAIN ConceptTemplates -> ConceptTemplates[family]

ReviewedTemplate(matches) ==
  IF matches = {} THEN NoIntent
  ELSE TemplateOf(Families[CHOOSE i \in 1..Len(Families) :
                             /\ Families[i] \in matches
                             /\ \A j \in 1..(i - 1) : Families[j] \notin matches])

-----------------------------------------------------------------------------------
(* Pages to fetch without a search. A rule without terms is the entry of "sources"  *)
(* for its fact types; the others are tried first, in order.                        *)
AnyTerm == {}
Rule(types, terms, urls) == [types |-> types, terms |-> terms, urls |-> urls]
Past == {"background"}
Now == {"current_value"}
Versions == {"version"}
Contrast == {"comparison"}

RuleMatches(rule, fact) ==
  /\ fact.fact_type \in rule.types
  /\ rule.terms = AnyTerm \/ rule.terms \cap fact.text # {}

ProductSources(entity) ==
  CASE entity = "python" ->
         <<Rule(Versions \cup Now, AnyTerm, <<"python/downloads">>),
           Rule(Past, AnyTerm, <<"python/history">>)>>
    [] entity = "deepseek" ->
         <<Rule(Past \cup Now \cup Contrast, AnyTerm, <<"deepseek/pricing">>),
           Rule(Versions, AnyTerm, <<"deepseek/news">>)>>
    [] entity = "apex legends" ->
         <<Rule(Versions \cup Now, AnyTerm, <<"ea/overclocked">>),
           Rule({"patch_notes"}, AnyTerm, <<"ea/midseason">>),
           Rule({"character_changes"}, AnyTerm, <<"ea/breach">>),
           Rule({"team_meta"}, AnyTerm, <<"apexranked/meta", "games.gg/tiers">>),
           Rule(Past, AnyTerm, <<"ea/overclocked", "apexranked/meta", "games.gg/tiers">>),
           Rule(Contrast, AnyTerm, <<"ea/overclocked", "apexranked/meta">>)>>
    [] entity = "http" ->
         <<Rule(Past \cup Contrast, AnyTerm, <<"rfc9110">>),
           Rule(Now, AnyTerm, <<"http-status-codes.csv", "rfc9110#404">>)>>
    [] entity = "git" ->
         <<Rule(Past, AnyTerm, <<"gitdatamodel">>),
           Rule(Versions \cup Now, AnyTerm, <<"git-scm">>)>>
    [] entity = "rust" -> <<Rule(Versions \cup Now \cup Past, AnyTerm, <<"rust/releases">>)>>
    [] entity = "openai" -> <<Rule(Past \cup Versions \cup Now \cup Contrast, AnyTerm, <<"openai/models">>)>>
    [] OTHER -> <<>>

StandardSources(entity) ==
  CASE entity = "json" -> <<Rule(Past \cup Now, AnyTerm, <<"rfc8259">>)>>
    [] entity = "sha-256" -> <<Rule(Past \cup Now, AnyTerm, <<"rfc6234.html">>)>>
    [] entity = "dns" -> <<Rule(Past \cup Now, AnyTerm, <<"ports.csv">>)>>
    [] entity = "tls 1.3" -> <<Rule(Past \cup Versions \cup Now, AnyTerm, <<"rfc8446.txt">>)>>
    [] entity = "rfc 3339" -> <<Rule(Past \cup Contrast, AnyTerm, <<"rfc3339.html">>)>>
    [] entity = "postgresql" -> <<Rule(Past \cup Versions \cup Now \cup Contrast, AnyTerm, <<"pg/versioning">>)>>
    [] entity = "sqlite" -> <<Rule(Past \cup Now \cup Contrast, AnyTerm, <<"sqlite/copyright">>)>>
    [] entity = "cap theorem" -> <<Rule(Past \cup Contrast, AnyTerm, <<"ibm/cap">>)>>
    [] entity = "database acid" -> <<Rule(Past, AnyTerm, <<"ibm/transactions">>)>>
    [] entity = "acid" -> <<Rule(Past, AnyTerm, <<"ibm/transactions">>)>>
    [] entity = "sql transaction isolation" -> <<Rule(Past \cup Contrast \cup Now, AnyTerm, <<"pg/isolation">>)>>
    [] entity = "node.js" -> <<Rule(Versions \cup Now, AnyTerm, <<"node/releases">>)>>
    [] OTHER -> <<>>

LanguageRules(entity) ==
  CASE entity = "python" ->
         <<Rule(Past \cup Now, {"creator"}, <<"python/license-2.1">>),
           Rule(Past \cup Now, {"first release"}, <<"python/history">>),
           Rule(Now \cup Versions, {"security support"}, <<"python/devguide">>)>>
    [] entity = "git" ->
         <<Rule(Past, {"object"}, <<"gitdatamodel">>),
           Rule(Past, {"state"}, <<"git/book">>)>>
    [] entity = "http" -> <<Rule(Past \cup Contrast \cup Now, {"property"}, <<"http-methods">>)>>
    [] OTHER -> <<>>

StandardRules(entity) ==
  CASE entity = "dns" ->
         <<Rule(Past \cup Now, {"port"}, <<"ports.xhtml?search=53">>),
           Rule(Past \cup Now, {"registry"}, <<"ports.xhtml">>)>>
    [] entity = "json" -> <<Rule(Past \cup Now, {"media type"}, <<"media-types/json">>)>>
    [] entity = "sha-256" -> <<Rule(Past \cup Now, {"digest", "size"}, <<"rfc6234.txt">>)>>
    [] entity = "rfc 3339" -> <<Rule(Past \cup Contrast, {"utc", "example", "+00:00"}, <<"rfc3339.txt">>)>>
    [] entity = "postgresql" -> <<Rule(Past \cup Contrast, {"isolation"}, <<"pg/isolation">>)>>
    [] entity = "sqlite" -> <<Rule(Past \cup Now \cup Contrast, {"licence"}, <<"sqlite/copyright">>)>>
    [] OTHER -> <<>>

ProductRules(entity) ==
  CASE entity = "deepseek" -> <<Rule(FactType, {"price"}, <<"deepseek/pricing">>)>>
    [] entity = "apex legends" ->
         <<Rule(FactType, {"live table"}, <<"apexranked/meta">>),
           Rule(FactType, {"breach"}, <<"ea/breach">>),
           Rule(FactType, {"midseason"}, <<"ea/midseason">>),
           Rule(FactType, {"community"}, <<"apexranked/meta", "games.gg/tiers">>),
           Rule(FactType, {"patch"}, <<"ea/overclocked", "ea/midseason">>)>>
    [] OTHER -> <<>>
ReviewedRules(entity) == LanguageRules(entity) \o StandardRules(entity) \o ProductRules(entity)

urls_for_type_first(entity, fact) ==
  LET rules == ProductSources(entity) \o StandardSources(entity)
               \o ReviewedRules(entity)
      first == SelectInSeq(rules, LAMBDA r : RuleMatches(r, fact))
  IN  IF first = 0 THEN <<>> ELSE rules[first].urls
urls_for_fact(entity, fact) ==
  LET rules == ReviewedRules(entity)
               \o ProductSources(entity) \o StandardSources(entity)
      first == SelectInSeq(rules, LAMBDA r : RuleMatches(r, fact))
  IN  IF first = 0 THEN <<>> ELSE rules[first].urls

-----------------------------------------------------------------------------------
(* Who publishes a page, and for which entities that publisher is authoritative.    *)
Site(url) ==
  CASE url \in {"python/downloads", "python/history", "python/license-2.1", "python/devguide"} -> "python.org"
    [] url \in {"deepseek/pricing", "deepseek/news"} -> "deepseek.com"
    [] url \in {"ea/overclocked", "ea/midseason", "ea/breach"} -> "ea.com"
    [] url \in {"rfc9110", "rfc9110#404", "rfc8259", "rfc6234.html", "rfc6234.txt",
                "rfc8446.txt", "rfc3339.html", "rfc3339.txt"} -> "rfc-editor.org"
    [] url \in {"http-status-codes.csv", "http-methods", "ports.csv", "ports.xhtml",
                "ports.xhtml?search=53", "media-types/json"} -> "iana.org"
    [] url \in {"gitdatamodel", "git-scm", "git/book"} -> "git-scm.com"
    [] url \in {"ibm/cap", "ibm/transactions"} -> "ibm.com"
    [] url \in {"pg/versioning", "pg/isolation"} -> "postgresql.org"
    [] OTHER -> url

OfficialSites(entity) ==
  CASE entity = "python" -> {"python.org"}
    [] entity = "deepseek" -> {"deepseek.com"}
    [] entity = "openai" -> {"openai/models"}
    [] entity = "apex legends" -> {"ea.com"}
    [] entity \in {"http", "json", "dns"} -> {"iana.org", "rfc-editor.org"}
    [] entity \in {"sha-256", "tls 1.3", "rfc 3339"} -> {"rfc-editor.org"}
    [] entity = "git" -> {"git-scm.com"}
    [] entity \in {"postgresql", "sql transaction isolation"} -> {"postgresql.org"}
    [] entity = "sqlite" -> {"sqlite/copyright"}
    [] entity = "node.js" -> {"node/releases"}
    [] entity = "rust" -> {"rust/releases"}
    [] OTHER -> {}

classify(site, entity) == IF site \in OfficialSites(entity) THEN "OFFICIAL" ELSE "INDEPENDENT"
====
