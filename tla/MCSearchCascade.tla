-------------------------- MODULE MCSearchCascade --------------------------
(* Model values for SearchCascade: servers as the registry and GitHub know them, and an official connector. *)
EXTENDS SearchCascade

Page(repo) == [page |-> repo, repo |-> repo]

Sample == [source |-> "mcp_registry", id |-> "srv", url |-> NoUrl, repository |-> NoUrl, title |-> "Srv",
              item |-> "tool", hosted |-> "no", match |-> "phrase", package |-> "none", versioned |-> TRUE, proofs |-> 1]

\* Two servers that the registry and GitHub both know: one under two names, one
\* under the same, whose name fits the query badly.
rA == [Sample EXCEPT !.id = "a", !.url = Page("A"), !.repository = Page("A"), !.title = "Alpha", !.package = "small"]
gA == [rA EXCEPT !.source = "github", !.id = "o/a", !.title = "alpha", !.proofs = 2]
rC == [rA EXCEPT !.id = "c", !.url = Page("C"), !.repository = Page("C"), !.title = "c", !.match = "partial"]
gC == [rC EXCEPT !.source = "github", !.id = "o/c"]

\* Hosted elsewhere, too big, an agent.
rHosted == [Sample EXCEPT !.id = "hosted", !.hosted = "remote"]
rBig == [rA EXCEPT !.id = "big", !.url = Page("B"), !.repository = Page("B"), !.title = "Big", !.package = "big", !.match = "all"]
gAgent == [gA EXCEPT !.id = "o/agent", !.url = Page("D"), !.repository = Page("D"), !.item = "agent"]

\* The service search never answers.
MCOffers == "mcp_registry" :> <<rA, rHosted, rBig, rC>> @@ "service" :> <<>> @@ "github" :> <<gA, gC, gAgent>>

MCFootprint == "small" :> "fits" @@ "big" :> "over"

Row(c) == [Evaluated(BestEffortItem(c)) EXCEPT !.embedded = TRUE]

Connector == [Row(Sample) EXCEPT !.key = <<"official", "mcp", "">>, !.name = "mcp", !.source = "official_connectors",
                                    !.providers = {"official_connectors"}, !.match = "all", !.embedded = FALSE]

Holding(rows) == [key \in {row.key : row \in rows} |-> CHOOSE row \in rows : row.key = key]

MCCatalogs == {Holding({}), Holding({Connector, Row(gA)}), Holding({Row(rA), Row(rBig), Row(gA)})}

MCQuery == {[kind |-> "any", want |-> "all", limit |-> 0], [kind |-> "tool", want |-> "tool", limit |-> 1],
            [kind |-> "agent", want |-> "agent", limit |-> 0]}

\* Searches are bounded, so all may come to rest; one that has begun may not, and a
\* state in which it could is a deadlock.
AtRest == (\A s \in Searcher : search[s].at \in {"idle", "done", "error"}) /\ UNCHANGED vars

MCSpec == Init /\ [][Next \/ AtRest]_vars

\* Nothing tells searches apart.
Symmetry == Permutations(Searcher)
=============================================================================
