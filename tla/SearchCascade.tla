--------------------------- MODULE SearchCascade ---------------------------
(***************************************************************************)
(* Search over the catalog (search/application.py, orchestrator.py,        *)
(* mcp_adapter.py, concurrency.py, query/service.py), with the writes of    *)
(* its live half to the catalog (normalization/pipeline.py,                *)
(* db/repositories.py).  Searches run concurrently; each reads the catalog *)
(* and the badges, asks the sources it still needs, stores what it         *)
(* approves row by row, and answers with one list of both.                 *)
(*                                                                         *)
(* Awaits on the database and on sources separate the actions.  Badges are *)
(* given and taken by the verification subsystem, and a script of the      *)
(* operator deletes oversized rows at any time.                            *)
(***************************************************************************)
EXTENDS CatalogRules

CONSTANTS
  Searcher,        \* searches in progress
  Query,           \* kind asked for, type the planner settles on, limit (0: none)
  Offers,          \* what each source would answer, best first
  Enabled,         \* sources that are switched on
  Footprint,       \* verdict of the package-size estimate, by package
  Catalogs,        \* catalogs to start from: functions from keys to items
  Repo,            \* repositories the registry of verified servers may know
  VerifiedCap, ColdMissCap, CandidateLimit, PerSource,     \* settings
  MaxSearches,     \* bound: searches
  MaxFaults,       \* bound: failures of sources, lookups, estimates and writes
  MaxMoves         \* bound: badges given or taken and rows deleted

ASSUME SearchAssumption ==
  /\ Enabled \subseteq Source
  /\ {VerifiedCap, ColdMissCap, CandidateLimit, PerSource} \subseteq Nat \ {0}
  /\ {MaxSearches, MaxFaults, MaxMoves} \subseteq Nat
  /\ Query # {}
  /\ Query \subseteq [kind : {"any", "tool", "agent"}, want : {"all", "tool", "agent"}, limit : Nat]

Offered == UNION {{Offers[src][i] : i \in DOMAIN Offers[src]} : src \in Source}

\* Every source names one page per candidate, its repository where it has one
\* (candidate.py), and the repository is read off the page.
ASSUME OffersAssumption ==
  /\ \A src \in Source : /\ Offers[src] \in Seq(Candidate)
                         /\ \A i \in DOMAIN Offers[src] : Offers[src][i].source = src
  /\ \A c \in Offered : c.repository \in {NoUrl, c.url}
  /\ \A c, d \in Offered : c.url.page = d.url.page => c.url.repo = d.url.repo

\* Rows are filed under their identities, and a row with the identity of a
\* candidate was a candidate like it.
ASSUME CatalogsAssumption ==
  \A C \in Catalogs :
    /\ IsFiniteSet(DOMAIN C)
    /\ \A key \in DOMAIN C : /\ key \in Key /\ C[key] \in Item /\ C[key].key = key
    /\ \A key \in DOMAIN C : \A c \in Offered :
         key = CanonicalIdentity(c) =>
           /\ C[key].type = c.item
           /\ RepoIdentities(C[key]) = {c.url.repo} \ {""}

VARIABLES
  mode,            \* "cached": the catalog alone answers; "mixed"
  catalog,         \* Item vertices by key; item_id is unique
  badged,          \* repositories with a verified badge
  search,          \* local state of every search
  searches, faults, moves,
  everBadged, pruned   \* history

env  == <<badged, moves, everBadged, pruned>>
vars == <<mode, catalog, search, searches, faults, env>>

-----------------------------------------------------------------------------
Keys(items) == {items[i].key : i \in DOMAIN items}

Idle ==
  [at |-> "idle", query |-> CHOOSE q \in Query : TRUE, cached |-> <<>>, servable |-> {},
   open |-> FALSE, pending |-> {}, got |-> [src \in Source |-> <<>>], failed |-> {},
   queue |-> <<>>, rejected |-> {}, exists |-> FALSE, stored |-> <<>>,
   live |-> "none", early |-> FALSE, answer |-> <<>>]

Init ==
  /\ mode \in {"cached", "mixed"}
  /\ catalog \in Catalogs
  /\ badged \in SUBSET Repo /\ everBadged = badged
  /\ search = [s \in Searcher |-> Idle]
  /\ searches = 0 /\ faults = 0 /\ moves = 0 /\ pruned = {}

Becomes(s, r) == search' = [search EXCEPT ![s] = r]

Fault == faults < MaxFaults /\ faults' = faults + 1

-----------------------------------------------------------------------------
(* Settings and limits of one search.                                       *)

LimitOr(q, default) == IF q.limit = 0 THEN default ELSE q.limit

Cap(r) == AtMost(LimitOr(r.query, ColdMissCap), ColdMissCap)

\* Mutant: the gate is not applied.
AllCached(r) == r.cached

Verified(r) == Keep(r.cached, {i \in DOMAIN r.cached : r.cached[i].key \in r.servable})

\* What discovery has to find: at least one, also when the list is already full.
Shortfall(r) == LET n == Cap(r) - Len(Verified(r)) IN IF n < 1 THEN 1 ELSE n

Officials == Enabled \ {"github"}

HowMany(r) == Len(r.got["mcp_registry"]) + Len(r.got["service"])

\* Mutant: a failed outcome ends the flattening.
UntilFailure(r) ==
  IF "mcp_registry" \in r.failed THEN r.got["service"]
  ELSE IF "service" \in r.failed THEN r.got["mcp_registry"]
  ELSE r.got["mcp_registry"] \o r.got["service"] \o r.got["github"]

\* The orchestrator flattens the outcomes in the order the sources were started.
Candidates(r) == r.got["mcp_registry"] \o r.got["service"] \o r.got["github"]

-----------------------------------------------------------------------------
(* ApplicationSearchService.search up to the early stop.                    *)

Ask(s, q) ==
  /\ search[s].at = "idle" /\ searches < MaxSearches
  /\ searches' = searches + 1
  /\ Becomes(s, [Idle EXCEPT !.at = "lookup", !.query = q])
  /\ UNCHANGED <<mode, catalog, faults, env>>

\* search_rankable cuts the matching rows off where the database happens to, and
\* rows without an embedding get one.  A word of the query that a row lacks keeps
\* it out.
Matching(q) ==
  {catalog[k] : k \in {j \in DOMAIN catalog : /\ q.want \in {"all", catalog[j].type}
                                              /\ Lexical(catalog[j]) >= 900}}

Lookup(s) ==
  LET r == search[s]
      all == Matching(r.query)
      size == AtMost(Cardinality(all), CandidateLimit)
      limit == IF mode = "cached" THEN LimitOr(r.query, PerSource) ELSE CandidateLimit
  IN /\ r.at = "lookup"
     /\ \E rows \in {R \in SUBSET all : Cardinality(R) = size} :
          /\ Becomes(s, [r EXCEPT !.at = "gate",
               !.cached = RankCatalogItems(SetToSeq(rows), "all", limit)])
          /\ catalog' = [k \in DOMAIN catalog |->
               IF catalog[k] \in rows THEN [catalog[k] EXCEPT !.embedded = TRUE] ELSE catalog[k]]
     /\ UNCHANGED <<mode, searches, faults, env>>

\* The database is down: the request ends with a plain 500.
LookupFails(s) ==
  /\ search[s].at = "lookup" /\ Fault
  /\ Becomes(s, [search[s] EXCEPT !.at = "error"])
  /\ UNCHANGED <<mode, catalog, searches, env>>

\* Where a search goes with the rows it may show.
Gated(r) ==
  CASE mode = "cached" ->
         [r EXCEPT !.at = "present",
                   !.answer = Truncate(Verified(r), LimitOr(r.query, Len(r.cached)))]
    [] mode # "cached" /\ Len(Verified(r)) >= VerifiedCap ->
         [r EXCEPT !.at = "present", !.early = TRUE,
                   !.answer = RankCatalogItems(Verified(r), r.query.want, Cap(r))]
    [] OTHER ->
         [r EXCEPT !.pending = IF r.query.kind = "agent" THEN {} ELSE Officials,
                   !.at = IF Enabled = {} THEN "answer"
                          ELSE IF r.query.kind = "agent" THEN "normalize" ELSE "sources"]

\* _servable_cached_results: badges, and every official connector.
Gate(s) ==
  LET r == search[s]
      May(item) == Official(item) \/ RepoIdentities(item) \cap badged # {}
  IN /\ r.at = "gate"
     /\ Becomes(s, Gated([r EXCEPT !.servable = {item.key : item \in {i \in ToSet(r.cached) : May(i)}}]))
     /\ UNCHANGED <<mode, catalog, searches, faults, env>>

\* The gate opens when the badges cannot be read.
GateFails(s) ==
  LET r == search[s]
  IN /\ r.at = "gate" /\ Fault
     /\ Becomes(s, Gated([r EXCEPT !.servable = Keys(r.cached), !.open = TRUE]))
     /\ UNCHANGED <<mode, catalog, searches, env>>

-----------------------------------------------------------------------------
(* MCPDiscoveryAdapter.discover: the official sources together, GitHub only *)
(* for what they leave open.                                                *)

Settles(s, src, r) ==
  Becomes(s, [r EXCEPT !.pending = @ \ {src}, !.at = IF src = "github" THEN "normalize" ELSE @])

SourceAnswers(s, src) ==
  LET r == search[s]
      page == IF src = "github"
              THEN LET gap == Shortfall(r) - HowMany(r) IN IF gap < 1 THEN 1 ELSE gap
              ELSE LimitOr(r.query, PerSource)
      first == Truncate(Offers[src], page)
      hits == Keep(first, {i \in DOMAIN first : ~Excluded(first[i])})
  IN /\ src \in r.pending /\ src # "service"
     /\ Settles(s, src, [r EXCEPT !.got[src] = hits])
     /\ UNCHANGED <<mode, catalog, searches, faults, env>>

\* The service search, where it is switched on, is called with an argument that it
\* does not take: the call raises, every time.
SourceFails(s, src) ==
  /\ src \in search[s].pending
  /\ IF src = "service" THEN UNCHANGED faults ELSE Fault
  /\ Settles(s, src, [search[s] EXCEPT !.failed = @ \cup {src}])
  /\ UNCHANGED <<mode, catalog, searches, env>>

Cascade(s) ==
  LET r == search[s]
      enough == Officials # {} /\ HowMany(r) >= Shortfall(r)
  IN /\ r.at = "sources" /\ r.pending = {}
     /\ Becomes(s, IF enough \/ "github" \notin Enabled THEN [r EXCEPT !.at = "normalize"]
                   ELSE [r EXCEPT !.at = "github", !.pending = {"github"}])
     /\ UNCHANGED <<mode, catalog, searches, faults, env>>

-----------------------------------------------------------------------------
(* Phase10Pipeline.process.                                                 *)

\* blind: the estimator could not tell any size, which rejects nothing.
Normalize(s, blind) ==
  LET r == search[s]
      sizes == IF blind THEN [p \in DOMAIN Footprint |-> "unknown"] ELSE Footprint
      found == Candidates(r)
      good == Keep(found, {i \in DOMAIN found : Accepted(found[i], sizes)})
      items == Deduplicate([i \in DOMAIN good |-> BestEffortItem(good[i])])
  IN /\ r.at = "normalize"
     /\ IF blind THEN Fault ELSE UNCHANGED faults
     /\ Becomes(s, [r EXCEPT
          !.at = "get",
          !.rejected = ToSet(found) \ ToSet(good),
          !.queue = LET ok == Keep(items, {i \in DOMAIN items : Approved(items[i])})
                    IN [i \in DOMAIN ok |-> [Evaluated(ok[i]) EXCEPT !.embedded = TRUE]]])
     /\ UNCHANGED <<mode, catalog, searches, env>>

\* upsert_catalog_item reads first and writes later.
UpsertGet(s) ==
  LET r == search[s]
  IN /\ r.at = "get" /\ r.queue # <<>>
     /\ Becomes(s, [r EXCEPT !.at = "put", !.exists = r.queue[1].key \in DOMAIN catalog])
     /\ UNCHANGED <<mode, catalog, searches, faults, env>>

\* Whatever is raised ends the pipeline: the search goes on with the catalog
\* alone, although rows it stored before stay.
Outage(s) == Becomes(s, [search[s] EXCEPT !.at = "answer", !.live = "failed"])

\* CREATE meets the unique index when another search was faster; UPDATE meets
\* nothing when the row is gone, and nobody notices.
UpsertPut(s) ==
  LET r == search[s]
      item == r.queue[1]
      there == item.key \in DOMAIN catalog
  IN /\ r.at = "put"
     /\ IF ~r.exists /\ there THEN Outage(s) /\ UNCHANGED catalog
        ELSE /\ catalog' = IF r.exists = there
                           THEN [k \in DOMAIN catalog \cup {item.key} |->
                                   IF k = item.key THEN item ELSE catalog[k]]
                           ELSE catalog
             /\ Becomes(s, [r EXCEPT !.at = "get", !.queue = Tail(@), !.stored = Append(@, item)])
     /\ UNCHANGED <<mode, searches, faults, env>>

UpsertFails(s) ==
  /\ search[s].at \in {"get", "put"} /\ search[s].queue # <<>> /\ Fault
  /\ Outage(s)
  /\ UNCHANGED <<mode, catalog, searches, env>>

-----------------------------------------------------------------------------
(* The answer, and the route that presents it.                              *)

\* Mutant: what was approved is shown, written or not.
Unwritten(r) == r.stored \o r.queue

Live(r) == IF r.live = "failed" THEN <<>> ELSE r.stored

\* Mutant: discovery replaces the catalog instead of adding to it.
AnswerLive(s) ==
  LET r == search[s]
  IN /\ r.at = "answer" \/ (r.at = "get" /\ r.queue = <<>>)
     /\ Becomes(s, [r EXCEPT
          !.at = "present",
          !.live = IF Live(r) = <<>> THEN "failed" ELSE "ok",
          !.answer = RankCatalogItems(Live(r), r.query.want, Cap(r))])
     /\ UNCHANGED <<mode, catalog, searches, faults, env>>

Answer(s) ==
  LET r == search[s]
  IN /\ r.at = "answer" \/ (r.at = "get" /\ r.queue = <<>>)
     /\ Becomes(s, [r EXCEPT
          !.at = "present",
          !.live = IF Live(r) = <<>> THEN "failed" ELSE "ok",
          !.answer = RankCatalogItems(MergeItems(Verified(r), Live(r)), r.query.want, Cap(r))])
     /\ UNCHANGED <<mode, catalog, searches, faults, env>>

\* Badges are read once more, for the order.
Present(s) ==
  LET r == search[s]
  IN /\ r.at = "present"
     /\ Becomes(s, [r EXCEPT !.at = "done", !.answer = OrderByTier(@, badged)])
     /\ UNCHANGED <<mode, catalog, searches, faults, env>>

Leave(s) ==
  /\ search[s].at \in {"done", "error"}
  /\ Becomes(s, Idle)
  /\ UNCHANGED <<mode, catalog, searches, faults, env>>

-----------------------------------------------------------------------------
(* The surroundings.                                                        *)

Move == moves < MaxMoves /\ moves' = moves + 1

BadgeGiven(repo) ==
  /\ repo \notin badged /\ Move
  /\ badged' = badged \cup {repo} /\ everBadged' = everBadged \cup {repo}
  /\ UNCHANGED <<mode, catalog, search, searches, faults, pruned>>

BadgeTaken(repo) ==
  /\ repo \in badged /\ Move
  /\ badged' = badged \ {repo}
  /\ UNCHANGED <<mode, catalog, search, searches, faults, everBadged, pruned>>

\* prune_oversized_items.
Prune(key) ==
  /\ key \in DOMAIN catalog /\ Move
  /\ catalog[key].record.package # "none" /\ Footprint[catalog[key].record.package] = "over"
  /\ catalog' = [k \in DOMAIN catalog \ {key} |-> catalog[k]]
  /\ pruned' = pruned \cup {key}
  /\ UNCHANGED <<mode, search, searches, faults, badged, everBadged>>

-----------------------------------------------------------------------------
Step(s) ==
  \/ Lookup(s) \/ Gate(s) \/ Cascade(s) \/ Normalize(s, FALSE) \/ UpsertGet(s) \/ UpsertPut(s)
  \/ Answer(s) \/ Present(s)
  \/ \E src \in Source : SourceAnswers(s, src)

Fails(s) ==
  \/ LookupFails(s) \/ GateFails(s) \/ Normalize(s, TRUE) \/ UpsertFails(s)
  \/ \E src \in Source : SourceFails(s, src)

Surroundings ==
  \/ \E repo \in Repo : BadgeGiven(repo) \/ BadgeTaken(repo)
  \/ \E key \in DOMAIN catalog : Prune(key)

Next ==
  \/ \E s \in Searcher : Step(s) \/ Fails(s) \/ Leave(s) \/ \E q \in Query : Ask(s, q)
  \/ Surroundings

Spec == Init /\ [][Next]_vars

-----------------------------------------------------------------------------
Stage == {"idle", "lookup", "gate", "sources", "github", "normalize", "get", "put", "answer",
          "present", "done", "error"}

Search ==
  [at : Stage, query : Query, cached : Seq(Item), servable : SUBSET Key, open : BOOLEAN,
   pending : SUBSET Source, got : [Source -> Seq(Candidate)], failed : SUBSET Source,
   queue : Seq(Item), rejected : SUBSET Candidate, exists : BOOLEAN, stored : Seq(Item),
   live : {"none", "ok", "failed"}, early : BOOLEAN, answer : Seq(Item)]

\* Every row is filed under its identity, no list grows beyond its cap, and what
\* a search stores was approved.
TypeOK ==
  /\ mode \in {"cached", "mixed"}
  /\ IsFiniteSet(DOMAIN catalog) /\ DOMAIN catalog \subseteq Key /\ pruned \subseteq Key
  /\ \A key \in DOMAIN catalog : catalog[key] \in Item /\ catalog[key].key = key
  /\ badged \subseteq everBadged /\ everBadged \subseteq Repo
  /\ search \in [Searcher -> Search]
  /\ \A s \in Searcher : LET r == search[s] IN
       /\ r.pending \subseteq Enabled
       /\ Len(r.answer) <= (IF mode = "cached" THEN LimitOr(r.query, PerSource) ELSE Cap(r))
       /\ \A item \in ToSet(r.stored) : item.score >= Threshold

\* What the user is shown was seen to work at some time, is a vendor's own
\* connector, or was approved by this very search - unless the badges could not be
\* read.  That holds for every interleaving of searches, badges and failures:
\* a row that another search merely stored does not slip in.
ShownIsEntitled ==
  \A s \in Searcher : LET r == search[s] IN
    r.at = "done" /\ ~r.open =>
      \A item \in ToSet(r.answer) :
        \/ Official(item) \/ RepoIdentities(item) \cap everBadged # {}
        \/ item.key \in Keys(Live(r))

\* A card can be opened: what is shown is a row of the catalog, whichever of its
\* writes failed or met another search's, unless the operator deleted it.
ShownCanBeOpened ==
  \A s \in Searcher : search[s].at = "done" =>
    Keys(search[s].answer) \subseteq DOMAIN catalog \cup pruned

\* No failure blanks the page: a search that found rows it may show shows some, and
\* when discovery failed or approved nothing, only such rows.
NeverBlank ==
  \A s \in Searcher : LET r == search[s] IN
    r.at = "done" =>
      /\ Verified(r) # <<>> => r.answer # <<>>
      /\ Live(r) = <<>> => ToSet(r.answer) \subseteq ToSet(Verified(r))

\* A source that fails takes nothing of the others with it: every candidate of a
\* source that answered was rejected or is represented among the items stored,
\* unless the score was too low or the writing failed.
CandidatesAreAccountedFor ==
  \A s \in Searcher : LET r == search[s] IN
    r.at = "done" /\ r.live = "ok" =>
      \A src \in Enabled \ r.failed : \A c \in ToSet(r.got[src]) \ r.rejected :
        LET item == BestEffortItem(c)
        IN \/ DeduplicationKey(item) \in {DeduplicationKey(i) : i \in ToSet(r.stored)}
           \/ ~Approved(item)

\* A vendor's own connectors come first, and below that line nothing outweighs how
\* well a name fits the query: neither its source nor its score, its evidence, the
\* bonus of a registry, or whether the catalog or this search found it, puts an
\* item above one whose name fits better.  Only a badge of some time does.
ShownInOrder ==
  \A s \in Searcher : LET a == search[s].answer
                        Plain(item) == RepoIdentities(item) \cap everBadged = {}
                    IN
    search[s].at = "done" =>
      \A i, j \in DOMAIN a : i < j =>
        /\ Official(a[j]) => Official(a[i])
        /\ Official(a[i]) = Official(a[j]) /\ (Official(a[i]) \/ (Plain(a[i]) /\ Plain(a[j]))) =>
             Lexical(a[i]) >= Lexical(a[j])

\* A merged list names no repository twice, whichever sources found it and
\* whatever the catalog holds under other identities.
OneRowPerRepository ==
  \A s \in Searcher : LET r == search[s] IN
    r.at = "done" /\ mode = "mixed" /\ ~r.early =>
      \A i, j \in DOMAIN r.answer :
        i # j => RepoIdentities(r.answer[i]) \cap RepoIdentities(r.answer[j]) = {}
=============================================================================
