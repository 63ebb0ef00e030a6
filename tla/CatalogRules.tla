---------------------------- MODULE CatalogRules ----------------------------
(***************************************************************************)
(* The pure part of search: how a candidate of a discovery source becomes  *)
(* a catalog item (normalization/pipeline.py, deduplication/identity.py),  *)
(* how an item is scored and approved (reliability/engine.py), how the     *)
(* catalog's rows and live items are merged into one list                  *)
(* (search/application.py) and how a list is ranked (query/ranking.py).    *)
(*                                                                         *)
(* A URL is the page it names and the repository that page belongs to, ""  *)
(* for none.  Scores are in units of 1/6000, ranks in units of 1/1000.     *)
(***************************************************************************)
EXTENDS Integers, Sequences, FiniteSets, SequencesExt

Source == {"mcp_registry", "service", "github"}

Url == [page : STRING, repo : STRING]
NoUrl == [page |-> "", repo |-> ""]

-----------------------------------------------------------------------------
(* Candidates.  source: who found it; hosted: where it names a third-party  *)
(* gateway; match: how well its name fits the query; package: what the      *)
(* registry would install; proofs: evidence statements that name MCP.       *)

Fit == {"phrase", "all", "partial", "none"}
Package == STRING \cup {"none"}

Candidate ==
  [source : Source, id : STRING, url : Url, repository : Url, title : STRING,
   item : {"tool", "agent"}, hosted : {"no", "url", "text", "remote"}, match : Fit,
   package : Package, versioned : BOOLEAN, proofs : Nat]

RegistryRecord(c) == [package |-> c.package, remotes |-> TRUE]

\* A repository has neither packages nor remote endpoints where later steps look
\* for them.
BareRecord == [package |-> "none", remotes |-> FALSE]

Record(c) == IF c.source = "mcp_registry" THEN RegistryRecord(c) ELSE BareRecord

\* GitHub repositories are not filtered.
Excluded(c) ==
  /\ c.source # "github"
  /\ \/ c.hosted \in {"url", "text"}
     \/ c.hosted = "remote" /\ Record(c).remotes

Protocol(c) == IF c.item = "tool" THEN "mcp" ELSE "a2a"

\* The first package decides, and only an estimate that is known.
Oversized(c, footprint) ==
  Record(c).package # "none" /\ footprint[c.package] = "over"

BestEffort(c) ==
  /\ c.item = "tool"
  /\ CASE c.source \in {"mcp_registry", "service"} -> c.versioned
       [] c.source = "github" -> c.repository # NoUrl /\ c.proofs > 0

Accepted(c, footprint) ==
  Protocol(c) = "mcp" /\ ~Oversized(c, footprint) /\ BestEffort(c)

-----------------------------------------------------------------------------
(* Items.                                                                   *)

Provider == Source \cup {"official_connectors"}

Key == {"mcp", "a2a", "official"} \X STRING \X STRING

ScoreRange == 0..6000

Item ==
  [key : Key, type : {"tool", "agent"}, name : STRING, urls : SUBSET Url,
   page : STRING, source : Provider, providers : SUBSET Provider, proofs : Nat,
   evidence : Nat, match : Fit, record : [package : Package, remotes : BOOLEAN],
   embedded : BOOLEAN, score : ScoreRange]

\* Names neither the version nor the display name; item_id is a function of it.
CanonicalIdentity(c) == <<Protocol(c), c.id, c.url.page>>

SourceUrl(c) == IF c.repository # NoUrl THEN c.repository ELSE c.url

\* A candidate without evidence gets a statement in its place; one more statement
\* says that it was accepted.
BestEffortItem(c) ==
  [key |-> CanonicalIdentity(c), type |-> c.item, name |-> c.title,
   urls |-> {c.url, SourceUrl(c)} \ {NoUrl}, page |-> SourceUrl(c).page,
   source |-> c.source, providers |-> {c.source}, proofs |-> c.proofs,
   evidence |-> (IF c.proofs = 0 THEN 1 ELSE c.proofs) + 1, match |-> c.match,
   record |-> Record(c), embedded |-> FALSE, score |-> 0]

RepoIdentities(item) == {u.repo : u \in item.urls} \ {""}

Official(item) == "official_connectors" \in item.providers

-----------------------------------------------------------------------------
(* Phase10Pipeline._deduplicate: by the page of the source and the tool's   *)
(* name where there is a page, else by identity.  The first of a group      *)
(* stays and takes the provenance and the evidence of the others.           *)

DeduplicationKey(item) ==
  IF item.page # "" THEN <<"repository", item.page, item.type, item.name>> ELSE item.key

Joined(group, item) ==
  [group EXCEPT !.providers = @ \cup item.providers, !.urls = @ \cup item.urls,
                !.proofs = @ + item.proofs, !.evidence = @ + item.evidence]

Absorb(groups, item) ==
  LET same == {i \in DOMAIN groups : DeduplicationKey(groups[i]) = DeduplicationKey(item)}
      one == CHOOSE i \in same : TRUE
  IN IF same = {} THEN Append(groups, item)
     ELSE [groups EXCEPT ![one] = Joined(groups[one], item)]

Deduplicate(items) ==
  LET groups[n \in 0..Len(items)] ==
        IF n = 0 THEN <<>> ELSE Absorb(groups[n - 1], items[n])
  IN groups[Len(items)]

-----------------------------------------------------------------------------
(* evaluate and apply_evaluation.                                           *)

AtMost(n, m) == IF n <= m THEN n ELSE m

\* In hundredths.
SourceQuality(source) ==
  CASE source \in {"mcp_registry", "service"} -> 100
    [] source = "official_connectors"         -> 85
    [] source = "github"                      -> 65

\* protocol .30, availability .15, provenance .10, source .15, freshness .10,
\* security .20 of 6000; a live item is available, fresh and has an ordinary URL.
Score(item) ==
  (IF item.proofs > 0 THEN 1800 ELSE 0) + 900 + 200 * AtMost(Cardinality(item.providers), 3)
    + 9 * SourceQuality(item.source) + 600 + 1200

Threshold == 4500

\* Mutant: the verdict is not written to the item.
Unmarked(item) == item

Evaluated(item) == [item EXCEPT !.score = Score(item)]

Approved(item) == Score(item) >= Threshold

-----------------------------------------------------------------------------
(* rank_items.  A list is ordered by how well names fit the query; quality  *)
(* and the bonus of official sources only decide between equals.            *)

Lexical(item) ==
  CASE item.match = "phrase"  -> 1000
    [] item.match = "all"     -> 900
    [] item.match = "partial" -> 250
    [] item.match = "none"    -> 0

\* Different statements and sources, six at most; of 100.
EvidenceScore(item) == (100 * AtMost(item.evidence + Cardinality(item.providers), 6)) \div 6

\* relevance .45, reliability .35, freshness .10, evidence .10.  Relevance is that of
\* the name; similarity of the texts counts only where it is greater.
Quality(item) ==
  (45 * Lexical(item)) \div 100 + (35 * item.score) \div 600 + 100 + EvidenceScore(item)

Priority(item) ==
  CASE item.source = "official_connectors" -> 150
    [] item.source = "mcp_registry"        -> 125
    [] OTHER                               -> 100

Bonus(item) ==
  IF Lexical(item) < 500 \/ Quality(item) < 600 THEN 0
  ELSE CASE Priority(item) >= 150 -> 350
         [] Priority(item) \in 101..149 -> 150
         [] OTHER -> 0

\* Mutant: the fit of the name weighs no more than the quality.
QualityFirst(item) == Lexical(item) + Quality(item) + Bonus(item)

FinalScore(item) == 10 * Lexical(item) + Quality(item) + Bonus(item)

\* Heaviest first; equals stay in their order.
Precedes(w, j, i) == w[j] > w[i] \/ (w[j] = w[i] /\ j < i)

\* The entries of s at the positions I, by their weights.
Arranged(s, I, w) ==
  [p \in 1..Cardinality(I) |->
     s[CHOOSE i \in I : Cardinality({j \in I : Precedes(w, j, i)}) = p - 1]]

Keep(s, I) == Arranged(s, I, [i \in I |-> 0])

Truncate(s, n) == SubSeq(s, 1, AtMost(Len(s), n))

\* Once some item carries every word of the query, items with only some of them
\* are left out.
RankItems(items) ==
  LET strong == \E i \in DOMAIN items : Lexical(items[i]) >= 900
      kept == {i \in DOMAIN items : ~(strong /\ Lexical(items[i]) \in 1..899)}
  IN Arranged(items, kept, [i \in kept |-> FinalScore(items[i])])

OfType(items, want) == Keep(items, {i \in DOMAIN items : want \in {"all", items[i].type}})

RankCatalogItems(items, want, limit) == Truncate(RankItems(OfType(items, want)), limit)

-----------------------------------------------------------------------------
(* _merge_items.  rows: the list so far; owned: repositories it stands for. *)

\* Mutant: items are told apart by their identity only.
ClaimByKey(merged, item, preferNew) ==
  LET same == {i \in DOMAIN merged.rows : merged.rows[i].key = item.key}
  IN IF same = {} THEN [merged EXCEPT !.rows = Append(@, item)]
     ELSE IF preferNew THEN [merged EXCEPT !.rows[CHOOSE i \in same : TRUE] = item]
     ELSE merged

Claim(merged, item, preferNew) ==
  LET same == {i \in DOMAIN merged.rows : merged.rows[i].key = item.key}
  IN IF RepoIdentities(item) \cap merged.owned # {} THEN merged
     ELSE IF same = {} THEN [rows  |-> Append(merged.rows, item),
                             owned |-> merged.owned \cup RepoIdentities(item)]
     ELSE IF preferNew THEN [merged EXCEPT !.rows[CHOOSE i \in same : TRUE] = item]
     ELSE merged

MergeItems(cached, live) ==
  LET all == cached \o live
      merged[n \in 0..Len(all)] ==
        IF n = 0 THEN [rows |-> <<>>, owned |-> {}]
        ELSE Claim(merged[n - 1], all[n], n > Len(cached))
  IN merged[Len(all)].rows

-----------------------------------------------------------------------------
(* order_results_by_tier: official, verified, the rest.                     *)

Tier(item, badged) ==
  IF Official(item) THEN 2 ELSE IF RepoIdentities(item) \cap badged # {} THEN 1 ELSE 0

OrderByTier(items, badged) ==
  Arranged(items, DOMAIN items, [i \in DOMAIN items |-> Tier(items[i], badged)])
=============================================================================
