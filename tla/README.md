# Discovery application: a TLA+ verification development

This directory holds a formal model of the discovery platform under
`src/platform`: a FastAPI backend that discovers MCP servers in several sources,
verifies them in the background, lists the verified ones, and lets users test a
server from the result page in a sandbox; and an Angular front end.  Paths below
are relative to `src/platform/backend/app` unless they start with `frontend/`.

The backend is one process with one asyncio event loop, three background tasks
(verification worker, TTL sweep, cold-miss cascade), one cleanup thread for
sandbox containers, an ArcadeDB database reached over HTTP and a Docker daemon.
Every `await` is a point at which other coroutines run; the database offers no
transactions to this code, every `update` is one statement that sets the fields
it names, and nothing locks a row between a read and a later write.  That is
where the interesting behaviour of the system comes from and what the models are
about: **an action is one round trip, and what was read in one action may be
stale when a later one uses it**.

## 1. Inventory

| Component | State | Operations | Interacts with | Hard behaviour | What makes it correct |
|---|---|---|---|---|---|
| Verification queue and registry (`verification/queue.py`, `repository.py`, `models.py`) | `McpServer` rows: status, attempts completed/planned, last attempt, badge, invocation, TTL | three polls of the worker, prefilter re-check, verdict write, decision row, TTL sweep | ingestion, pipeline, API, badge bridge - all write the same rows | stale reads across a run of minutes, last writer wins, page limits applied before filters, restart in the middle | nothing is listed that nobody saw work; a listed row is complete; queued rows reach a verdict; promised attempts are made; expired listings are re-verified |
| Verification pipeline and scoring (`verifiers.py`, `scoring.py`, `timeout_policy.py`) | none of its own (the run) | local run in a container, remote run over HTTP, soft checks, score, bucket, corrections | sandbox, remote client, judge | several rules override each other; thresholds of a rounded weighted sum | verified needs a successful invocation; final verdicts need all attempts |
| Verification API (`verification/api.py`) | handlers in flight | search, recheck, approve, reject, provider authorization, observability | registry, cold-miss | check-then-write, two-update requests | an approval never lists what never worked |
| Badge bridge (`bridge.py`) | none | badge write after a user's test, badge lookup for results | registry, sandbox routes, search | a write over a run in progress; row creation | rows written by users are complete and re-verified |
| Ingestion and prefilter (`ingestion.py`, `prefilter.py`, `sandbox/package_size.py`) | none | dedupe, create, gate | sources, package registries | the row exists before the gate has answered | refused servers cost no run |
| Cold-miss cascade (`queue.py`, `repository.py`, `api.py`) | one row per search term: status, two flags, found | enqueue (fire-and-forget), cascade loop | search, ingestion, sources | concurrent enqueues, exceptions and restarts between updates | a missed term gets looked up; GitHub only after the registry |
| Sandbox containers (`sandbox/container_manager.py`) | session table, per-user sets, Docker containers, cleanup thread | create, create from source, destroy, lookup, expiry sweep, reconciliation | routes, pipeline, Docker | a thread and coroutines over one table; Docker fails independently; restart | no container outlives its session; no live session loses its container |
| Local stdio client (`sandbox/local_mcp_client.py`) | pending requests by id, process | connect (one retry when out of memory), request, reader, disconnect | container | answers out of order, end of output, timeouts | each request gets its own answer or an error |
| Test sessions, OAuth, provider consent (`sandbox/session.py`, `oauth.py`, `routes.py`) | session store, one-use flow store, both in memory | connect, invoke, authorize, callback, poll, token by hand, disconnect | browser, remote client | a callback races polls, closing, restarts and other dialogs; redirects can be repeated | a token reaches the session that asked and only the server it was obtained for; a closed session stays closed; a consent is exchanged once |
| Test dialog (`frontend/src/app/discovery/test-tool-modal.component.ts`) | dialog phase, session, resume note per item, poll timer | connect, OAuth in a second tab, token, invoke, close | routes | answers after closing; consent given to a closed dialog | the note finds the session the consent went to |
| Search and discovery cascade (`search/*.py`) | none (per request) | catalog first, badge gate, live sources on shortfall, merge, order | catalog, sources, query, bridge | failing or slow sources, duplicates, other searches writing the same rows | only entitled rows are shown, and only rows that exist; one failure hides nothing else; no repository twice |
| Normalization and deduplication (`normalization/`, `deduplication/`, `reliability/`) | none | identity, evidence merge, score, store row by row | search, catalog | read-then-write of rows; keys that differ between sources | one server is one row; every approved candidate is stored or accounted for |
| Query planning and ranking (`query/`) | embedding cache | plan, embed, rank | search | floating point distances | stable order |
| Remote MCP client (`sandbox/mcp_client.py`, `auth_signals.py`) | one request: attempt, transport | connect, list, call with retry, probe | remote servers | failures wrapped in groups by a closing transport, cancellation, retry of a call that may have run, waits without a deadline | the user is told the root cause; only transient failures are repeated; a request ends or waits for its server, and never goes round |
| Artifacts and caches (`artifacts/`, `api/routes.py`) | cached files, database rows | resolve, cache, read | catalog, GitHub | two stores that fail apart | a served path exists |
| Catalog repositories and scripts (`db/`) | catalog rows | get, create, update, seed, prune | everything | check-then-create, rows deleted between read and write | a shown row exists |
| Source adapters (`discovery/github`, `discovery/mcp_registry`) | none | fetch, parse | sources | network | - |
| Classifier and extraction (`sandbox/classifier.py`, `extract.py`) | none | string heuristics | routes | - | - |
| Semantic judge (`verification/semantic_judge.py`) | none | one model call | pipeline | - | - |
| Result pages, code viewer (`frontend/...`) | view state | rendering | API | - | - |

The hazards themselves, each at its line, are listed in `PROJECT.json`.

## 2. Plan

Order of work; every module has its parameters as CONSTANTS with named
assumptions, one action per operation, and no RECURSIVE operator, so that it can
be proved about.

1. `Scoring` - what a run can report and the verdict on it (pure operators). *Done, proved.*
2. `ProvenListing` - abstract promise of the registry. *Done.*
3. `VerificationQueue` - registry, worker, gate, sweep, API, badge; EXTENDS `Scoring`,
   implements `ProvenListing`. *Done, checked, proved.*
4. `ColdMiss` - rows per term, enqueues in flight, cascade loop, restart.
   *Done, checked, proved.*
5. `SandboxContainers` - session table, creators, destroyers, cleanup thread, two
   reconcilers, Docker, restart.  *Done, checked, proved.*
6. `LocalRpc` - request/response correlation of the stdio client over a pipe that can
   end, with timeouts and disconnect; implements the abstract `RpcPromise`: each call
   gets one answer, its own or an error.  *Done, checked, proved.*
7. `TestSessions` - session store, one-use flow store, callbacks, polls, and the
   dialog of the browser composed with them; implements the abstract `SessionPromise`.
   *Done, checked, proved.*
8. `RemoteFailures`, `RemoteClient` - what can go wrong under which wrapping and what the
   user is told (pure), and a request with its attempts, its retry and its probe.
   *Done, checked, proved.*
9. `CatalogRules` - candidate to item, identity, deduplication, score, merge, ranking, order
   of tiers (pure operators and recursive functions).  *Done, checked and proved through 10.*
10. `SearchCascade` - catalog-first search, badge gate, isolated sources, the writes of the
    pipeline, merge; several searches, badges and pruning over one catalog; EXTENDS
    `CatalogRules`.  *Done, checked, proved.*
11. Left: search has no liveness property; the artifact cache is not modelled (section 8).

## 3. Modules and their code

### `Scoring` (`verification/scoring.py`, `verifiers.py`)

A **run** is the record of what the pipeline learned: how it ended (`Kind`), the
checks that ran, how many tools were tried, answered, were judged and judged
meaningful, whether the malformed-input probe raised a flag.  `LocalRuns` and
`RemoteRuns` are the runs the two pipelines can report, read off their branches:
each early return is one set.  `Score`, `Confidence`, `Bucket` translate
`score_server`; `Verdict` adds the corrections `_finalize` makes for malformed
servers, transport failures with attempts left and authentication.  Scores are
counted in sixtieths of a point, which makes every rate over at most five tools a
whole number, so rounding becomes a comparison with 79.5 and 39.5 points.

### `ProvenListing`

The promise to users of the default search, and nothing about how it is kept: a
server is added to the listing only if it has been seen to work before.

### `VerificationQueue`

| Model | Code |
|---|---|
| `known`, `rec` | rows of `McpServer`; ages and deadlines in levels (`since`: under an hour, under six, more; `ttl`: none, live, expired) |
| `pc`, `job`, `snap` | `process_next_server`: the poll it is at, the record it took, and the two fields of its copy that it uses minutes later |
| `gating` | `_ingest_candidate` between `ingest` and the answer of the size gate (one at a time: the loop awaits each candidate) |
| `sweeping` | `requeue_expired_ttl` between its query and its last update |
| `rechecking`, `approving` | API handlers between their two round trips |
| `proven`, `spent` | history: servers that answered a tool call; bounded events |
| `PollQueue`, `PollExpired`, `PollReview` | the three queries, each with its page limit applied before the filter, in the order of the code |
| `Finalize` | `_verify_local`/`_verify_remote` plus the verdict write of `_finalize`: only the fields it names, with the attempt counter from the stale copy and everything else from the row as it now is |
| `VerificationRaises`, `IterationFails` | the two `except` clauses: inside the guarded part the record becomes `retry_pending`, outside nothing is written |
| `RecheckReset`/`RecheckRequeue`, `ApproveCheck`/`ApproveWrite`, `Reject` | the API handlers, one action per update |
| `UserTest` | the badge write of `bridge.py`.  Creating a missing row and updating it are one action: the created row already carries every field of the update except `attempts_completed` |
| `Restart` | a new process: rows stay, everything in flight is lost |

`rec` is total for convenience; a row exists only for members of `known`.

### `ColdMiss` (`queue.py`, `repository.py`, `api.py`)

| Model | Code |
|---|---|
| `row` | one `ColdMissQuery` row per term: status, `registry_done`, `github_done`, `servers_found` |
| `search` | a search request after it has been answered: `enqueue_cold_miss` runs as a fire-and-forget task and reads, then creates or resets |
| `batch`, `pc`, `term`, `githubDone`, `hits` | `cold_miss_loop`: the page it read, where `run_cold_miss_cascade` is, the flag of its stale copy it uses later, what the step found |
| `EnqueueRead`, `EnqueueCreate`, `EnqueueReset` | the two round trips of `enqueue`; the unique index on the term makes a second create fail, a reset writes whatever the row is by then |
| `MarkRegistry` ... `RecordGithub` | one action per update or look-up of the cascade |
| `TermFails`, `Restart` | the suppressed exception (the loop goes on with the next term) and a new process |
| `asked`, `hit`, `interrupted` | history: who was asked about a term, whether the registry had something, whether a look-up was cut short |

What a source offers is one bit, `new`: whether the ingestion of its candidates
created anything.  The order of the page is the constant `Rank`.

### `SandboxContainers` (`sandbox/container_manager.py` and its callers)

| Model | Code |
|---|---|
| `life` | the coroutine that creates a session: in `create_container(_from_source)`, container up, registered and connecting, offered to its user, over |
| `container` | what the Docker daemon runs, independent of the table |
| `tracked`, `status` | `_sessions` and the status field of each object; an object outlives its entry, so `Connected` may write to one that was destroyed |
| `expired` | `is_expired`: past the deadline.  Deadlines are only looked at for sessions in the table |
| `destroy[d][s]` | `destroy_container` in flight, for the creator or user (`caller`), a second request of the user (`again`) and the cleanup thread: it marks under the lock, removes outside it, forgets under the lock |
| `recon`, `targets` | `_reconcile_orphaned_containers`, awaited at startup and run once more by the cleanup thread: list, compare with the table, remove one by one |
| `CleanupStart`, `Reap` | `cleanup_expired`: the selection by status, then one destruction after the other |
| `ListFails`, `RemovalFails` | Docker raises; the exception is logged and swallowed |
| `orphan`, `lost`, `raced` | history: containers of an earlier process; containers Docker or a failed installation left behind; sessions that existed between container and table when a reconciliation listed |

The verification worker is the only caller that passes a `user_id`; requests are
served only after the awaited startup hooks, the worker starts before them.

### `RpcPromise` and `LocalRpc` (`sandbox/local_mcp_client.py`)

`RpcPromise` is what callers of a JSON-RPC client may rely on: a call ends once, and
with an answer only after the server has answered that very call.

| Model | Code |
|---|---|
| `stage`, `then`, `retried` | where `connect` or `disconnect` is, where a `_cleanup` leads, `_oom_retried` |
| `proc`, `oom` | the `docker exec` process: alive, dead but its exit code not seen, seen; whether it was killed for memory |
| `heard`, `stdout` | what the server has received and the lines it printed and nobody read; both start empty with each process |
| `reader` | `_read_stdout`: reading, ended at the end of output, broken by a line it cannot handle |
| `nextId`, `pending`, `call` | `_request_id`, the keys of `_pending`, and how each future ended.  A timeout leaves its key behind, `_cleanup` drops keys and leaves the futures |
| `Answers`, `Chatters`, `Dies`, `Reaped` | the server: it answers what it received in any order, or asks under numbers of its own (`ServerId`), or prints something else, or dies |
| `Reads`, `ReaderBreaks`, `EndOfOutput` | one line of the stream, one that is JSON and no object, the end |
| `Spawn` ... `HandshakeRaises` | `_connect_once` from await to await; `Fails` adds the retry of `connect`, `Diagnosed` what `_detect_oom_kill` may answer |
| `CleanupReader`, `CleanupProcess` | the two awaits of `_cleanup`, between which invocations go on being sent |
| `late`, `said` | history: calls made when nobody read the output any more; calls the server answered |

### `SessionPromise` and `TestSessions` (`sandbox/session.py`, `oauth.py`, `routes.py`, the dialog)

`SessionPromise` is what whoever gives the sandbox a credential may rely on, without
stores, dialogs or requests: a session is opened for one item, keeps it and once closed never comes back;
it holds one token at a time, of its own item; a consent asked for a session and an item becomes a
token at most once, in that session or, if it was closed, in a new one.  The mapping takes
a session as open while it has an entry, and a consent as spent once its flow was
taken and its exchange is over.

| Model | Code |
|---|---|
| `entries`, `nextSid` | `SessionStore`: item, token and OAuth state by session.  Identifiers are random in the code, numbers here; loading an entry renews it |
| `flows`, `flow`, `nextFlow` | the keys of `OAuthFlowStore` and the context of every flow ever started; `consume` removes the key |
| `exchanging` | callbacks between `consume` and the answer of the token endpoint |
| `requests` | handlers at their await on a remote server or provider, with the token they read before it; `live`: the dialog that sent them still exists |
| `dialog`, `resume` | the open dialog (item, session, what it shows), and the note in the tab's `sessionStorage` for resuming an item after consent |
| `offered`, `busy`, `polled` | `showOAuthButton`, kept from the last connect; the buttons disabled while their request is under way, each by itself; the session the poll timer was started with |
| `OpenDialog` ... `Close` | what the user and the poll timer send, from whatever the dialog shows: a consent can be started while a typed token is on its way.  `Close` revokes the session while requests go on |
| `TestEnds`, `StartEnds`, `SubmitEnds`, ... | the second half of each handler and what the dialog, if it is still there, makes of the answer.  A stored token is followed by a connect even when the dialog has closed.  The timer that a closed dialog starts only reads a session, and is left out |
| `CallbackTakes`, `ExchangeEnds` | the two halves of the callback; the first compares the item of the path with the one of the flow, the second stores the token in the session of the flow or in a new one |
| `FlowExpires`, `Restart` | the age limit of a flow; a new process with empty stores, while the tab keeps its dialog and its notes |
| `revoked`, `taken` | history: sessions the user closed, flows a callback took |

`Preregistered` are the items whose provider has no dynamic registration: their redirects
come to a path that names no item.

### `RemoteFailures` and `RemoteClient` (`sandbox/mcp_client.py`, `auth_signals.py`, `routes.py`)

A failure is its **root** (the exception under all wrapping: one of the HTTP classes, a
JSON-RPC error, a network error, a timeout, a cancellation, ...) and **how** it leaves the
MCP library: bare, in a group, or in a group raised by the transport while it closes.
`Raised` is the exception the client's clauses make of it, `Unwrapped` what the
classification digs out again, `Classify` the reason and the hints (token form, OAuth
button) the user gets, `Probed` the correction after the extra request to the server.

| Model | Code |
|---|---|
| `request` | operation, credentials, kind of host, and whether its address contains digits that read like a status |
| `stage`, `attempt` | where `_do_connect` or `_do_invoke` is, and the loop of `_with_retries` around it |
| `pending`, `reply` | what the body raised, or the reply that has arrived, while the transport closes |
| `Construct` | the constructor's refusal of hosts that are not public; inside the route's `try` for connect, outside for invoke |
| `Open`, `OpenFails`, `Initialized`, `Replies`, `BodyFails`, `Close`, `CloseRaises` | one attempt, await by await; a group raised by closing replaces both exception and reply |
| `AttemptFails` | a refusal is answered at once, transient exceptions are repeated, the rest is classified |
| `Transient` | the roots `_with_retries` repeats: timeouts, cancellations, the network, and HTTP error answers other than refused credentials |
| `Retry`, `Probe`, `Cancel` | the pause, the extra request, and a cancellation, which inside an attempt is taken for a timeout |
| `cause`, `cancelled` | history |

### `CatalogRules` and `SearchCascade` (`search/`, `normalization/pipeline.py`, `deduplication/`, `reliability/`, `query/`)

`CatalogRules` has the rules that need no state: which candidates are taken
(`Excluded`, `Accepted`), the item made of one (`BestEffortItem`), `CanonicalIdentity`,
`Deduplicate`, `Score`, `RankCatalogItems`, `MergeItems`, `OrderByTier`.  A URL is the page
it names and the repository the page belongs to; how well an item fits the words of a query
is a level recorded in it, and a score is at most `ScoreRange`, as the field of the item says.  Two loops of the code are recursive functions of the length of
their list (`Deduplicate`, `MergeItems`).  What the code does with stable sorts and with
comprehensions is one operator, `Arranged`: the entries at some positions, heaviest first and
equals in their order; `Keep` is the case of equal weights.

| Model | Code |
|---|---|
| `catalog` | `Item` vertices by key; embeddings are added on look-up |
| `badged` | repositories with a verified badge, moved by the verification subsystem (`BadgeGiven`, `BadgeTaken`) |
| `search` | each request: where it is, what it read (`cached`, `servable`), what the sources answered (`got`, `failed`), what the pipeline still has to write (`queue`), what it wrote (`stored`), the answer |
| `mode` | `cached`: the catalog alone answers; `mixed` |
| `Lookup`, `Gate`, `GateFails` | `search_rankable` with its candidate limit; `_servable_cached_results`, which opens when badges cannot be read; then the early stop |
| `SourceAnswers`, `SourceFails`, `Cascade` | the official sources side by side, each outcome on its own; GitHub only for the shortfall.  The service search, where it is switched on, fails every time (section 7) |
| `Normalize` | the pipeline up to approval: filter, size gate (`blind`: sizes unknown), items, deduplication, score |
| `UpsertGet`, `UpsertPut`, `UpsertFails` | `upsert_catalog_item` reads, then creates or updates; a create can meet the unique index, an update a missing row |
| `Answer`, `Present` | merge, rank, cap; the order of tiers, from badges read once more |
| `Prune` | the operator's `prune_oversized_items` |

## 4. Runs

| Run | Instance | Shows |
|---|---|---|
| `registry` | one remote server, one server the prefilter refuses, page limits of one, one tool, and one API request, one fault and one expiry in a behaviour | no interleaving lists a server nobody saw work, leaves a listed row half written or decides early; the registry implements `ProvenListing` |
| `liveness` | the same two servers without requests and faults, one expiry | queued rows reach a verdict, reviews get their attempts, expired listings are re-verified |
| `starved` | review page shorter than the number of exhausted reviews | **refuted**: unfinished reviews can be hidden behind finished ones for ever |
| `coldmiss` | two terms, three searches, a page of one row, two faults | terms are closed only on answers, GitHub stays the fallback, terms are taken up |
| `coldmiss_stuck` | one term, one fault | **refuted**: a term can stay in `checking_github` for ever |
| `sandbox` | a user's test from a repository, a verification run, one Docker failure or restart | containers are accounted for, concurrent destructions finish, expired sessions and orphans end |
| `localrpc` | four requests, two unread lines, one number the server uses itself | every call ends once, with its own answer or an error; the handshake was with the present process; `connect` ends after at most one retry; the client implements `RpcPromise` |
| `remote` | every request against every kind of host, every root in every wrapping at every stage, one cancellation, two retries | the user is told the root of a failure; what is repeated was transient, and refused credentials, JSON-RPC errors and (cancellations aside) replies are final; a request ends, or one of its attempts waits for the server for good |
| `answered` | the same with one retry | **refuted**: an HTTP error, 402 say, is an answer and not a failure of the network, and is repeated all the same |
| `sessions` | two items, one of them without dynamic registration; two sessions, two flows, two requests in flight | tokens stay with their item and the session that asked; closed sessions stay gone; a consent is exchanged once; stores and routes implement `SessionPromise` |
| `lost_consent` | two sessions, one flow, one request in flight | **refuted**: a dialog closed during consent leaves a note for a session that gets no token |
| `search` | two searches, the registry and GitHub with four servers and an agent, the service search that always fails, an official connector, three catalogs, one fault, one badge or row that comes or goes | what is shown is entitled, can be opened, is named once and stands in order: vendors' own first and, badges aside, nothing before an item whose words fit the query better (`ShownInOrder`, what the comment at `ranking.py:114-116` wants); no failure blanks the page or takes other sources' candidates with it |

Four more properties are stated in the modules and are refuted by TLC under
configurations that are no runs of their own: `BadgeFollowsVerdict`
(`VerificationQueue_stale_badge.cfg`), `GateComesFirst`
(`VerificationQueue_size_gate.cfg`), `LiveSessionHasContainer`
(`SandboxContainers_raced.cfg`) and `MarkedIsCleanedUp`
(`SandboxContainers_marked.cfg`).

The bounds and why they are enough:

* *Registry.*  The rows of different servers meet only in the page limits and in
  the single worker.  Two servers with a page of one are enough for one to hide
  the other; the second is one the prefilter refuses, which keeps every poll and
  every gate in play while its own row stays simple.  A stale write needs one
  reader and one writer: one request beside the worker, the sweep and the gate is
  the smallest conflict, and each of the request kinds is tried against each
  step.  `MaxTools = 1` is enough for the safety of the registry because a row
  remembers a verdict and not a run; `Scoring` is proved for up to five tools.
  `MaxRequests`, `MaxFaults`, `MaxExpiries` bound the events and nothing else; the
  theorems hold without them being small.
* *Cold misses.*  Two terms with a page of one row make one wait for the other;
  three searches are needed for two to record the same term and one to come late;
  two faults are an exception and a restart within one look-up.
* *Sandbox.*  Sessions meet only in the reconciliations, which look at all
  containers: one session of each kind of creator.  Two user requests and the
  cleanup thread can be inside `destroy_container` for the same session.
  The per-user limit is never reached with the users the code passes (the
  verification worker uses one user per server and one run at a time).
* *Stdio client.*  Four requests are two attempts of a handshake of two, or one
  attempt and two invocations at once.  Two unread lines can be read in both
  orders; the server's own number is one the client gives out too.  `connect`
  itself sends at most four requests, so `ConnectEnds` never meets the bound.
* *Remote client.*  Two retries are one more than a repetition needs and show that the
  count stops it.  Nothing else is bounded: requests, roots, wrappings and results
  are all enumerated.
* *Test sessions.*  Two items are needed for a token to reach the wrong server, two
  sessions for it to reach the wrong one (the second is the one a callback or a dialog opens
  when the first is gone), two flows for two consents at once, and two requests for an
  answer to arrive after another.  The theorems hold for any numbers.
* *Search.*  Two searches race on the rows they store; one fault is the smallest partial
  failure, and one move makes any value read earlier stale.  The registry offers a server that GitHub knows under
  another name, one that GitHub knows under the same name and whose name fits the query badly, one that is hosted
  elsewhere and one that is too big; GitHub has the first two and an agent.  The catalogs hold none of them, one under
  another identity, or three.  The searches are interchangeable and the properties are
  safety properties, so they are checked up to permutation (`Symmetry`).  `VerifiedCap`, `ColdMissCap`, `CandidateLimit` and
  `PerSource` are the settings of the code made small enough to be met.

Deadlock is checked for `VerificationQueue` and, with `AtRest` as the one way to stop, for `SearchCascade`: a search
that has begun always has a next step.  The others come to rest: once every missed term is
recorded, every session closed, every call ended and the client disconnected, the remote request
answered, or the bounded sessions, flows and searches used up.

## 5. Fairness

* `VerificationQueue!Fairness`: the worker's loop (`verification_worker_loop`)
  never returns and sleeps a bounded time between polls; gate and recheck
  handlers that have started run on, as the event loop schedules them; time passes.
  No request, failure, expiry, TTL sweep or discovery is assumed to happen.
* `ColdMiss!FairSpec`: the cascade loop goes on; searches need not come or finish
  their writes.
* `SandboxContainers!FairSpec`: the cleanup thread, the awaited startup
  reconciliation and destructions that have started go on.  Nobody has to create, connect, look up or
  disconnect, and Docker may refuse as often as the bound on faults allows.
* `LocalRpc!FairSpec`: the reader task and the coroutine of `connect` or `_cleanup`
  run when they can, and `wait_for` keeps its timeouts.  The server owes nothing: it
  may stay silent for ever.
* `RemoteClient!FairSpec`: only what the client does by itself, the construction and the repetition after
  the pause (`OwnStep`), goes on.  Everything else waits for the server: `ClientSession` gets no
  read timeout, the timeouts of the transport are for one read, and a stream that is
  kept alive resets them.  So the server may leave any attempt waiting for ever, and the property says no more than
  that this is the only way in which a request fails to end.  Nobody has to cancel it.
* `TestSessions` and `SearchCascade` state safety only.

## 6. Proofs

The proofs assume only the named `ASSUME`s of the modules (parameters are
naturals, `NoServer`/`NoTerm` are not members, ranks are distinct); the bounds on
events stay arbitrary naturals.  Three assumptions describe what search is given:
`SearchAssumption` (settings), `OffersAssumption` (each source gives one page per candidate,
which is its repository where it has one, and equal pages have equal repositories) and
`CatalogsAssumption` (the rows to start from are filed under their identities, and a row
with a candidate's identity has its kind and repository).  TLC evaluates them all.

* `ScoringProofs`.  `ScoreRange`: the weighted score of every run the pipelines can
  report lies within 0..100 points.  `VerifiedNeedsSuccess`: the verdict is
  verified only for a run that connected and got an answer from a tool.
  `DecisiveNeedsAllAttempts`.  All for any number of tools up to five.
* `VerificationQueueProofs`.  `IInv` is `TypeOK`, `SeenToWork`, `ListedIsComplete` and
  `ApprovalsEarned`: an approval between its check and its write is for a server
  that has been seen to work.  The last conjunct is the one that makes it
  inductive, because the write goes over whatever a newer run left in the row: the row alone no longer says what the check saw.  From it follow
  the safety theorems, `DecisionsWaitForAttempts` (with the lemma on `Finalized`) and `RegistryImplementsListing`.
  `HiddenReviewsStay` is the general form of the refutation of `ReviewFinishes`: for any page size and any
  finite or infinite set of servers (the registry itself stays finite, `KnownIsFinite`), a review
  behind a page of finished ones is not in the poll's selection, and no step but an API request or a user's test
  writes to any of them.  `QueuedAreKept` says who can take a record out of the queue: the worker
  or the gate that has it in hand, an approval checked before it was queued again, a request.
* `ColdMissProofs`.  `DoneStandsOnAnswers` needs to know what the loop has learned
  at each step (`Learned`) and that nobody else closes the term in hand (`Open`);
  `GithubIsFallback` needs where a term with registry hits can be (`HitsAreHandled`).
  `TakenByTheLoop` says that nothing but the loop, with the term in hand, takes a recorded term
  out of the queue; `StrandedForever` that a term an interruption left in
  `checking_github` stays there whatever happens: what TLC shows of one term in
  `coldmiss_stuck` is so for any terms, searches and faults.
* `SandboxContainersProofs`.  To the three safety invariants `IInv` adds: a session
  is not in the table, and nobody destroys it, before it is registered
  (`Unregistered`); a record is only forgotten after the removal (`RemovedFirst`); a session whose handshake runs was not offered (`NotYetOffered`);
  a created container runs unless a reconciliation saw it (`UpIsUp`); and what a
  reconciliation still has to remove is either such a session or one that left its
  creation and the table (`TargetsAreOld`).  `LeakedForGood` is the general form of the
  refutation of `MarkedIsCleanedUp`: the reaper skips what is marked, a reconciliation what is
  in the table, `disconnect` what is past its deadline, so only a restart ends such a session.
* `LocalRpcProofs`.  `IInv` adds to `TypeOK` and `WaitersAreHeeded`: a printed line
  answers a call the server received, unless it uses a number of its own
  (`LinesAreEarned`); an answer the handshake under way has accepted was earned
  from the present process (`HandshakeSoFar`); before a client is
  connected only they can wait (`OnlyHandshakeWaits`), which is why a retry never
  leaves a call behind.  `RpcImplementsPromise` follows with one lemma for each way
  a step changes what callers see.  `ConnectShrinks`: a number of at most 25 falls with every
  step of the client and rises with none but `disconnect`; it counts two for each stage left, those of
  the second attempt while it is not taken, and one for a reader that has not stopped.
* `RemoteClientProofs`.  `RootIsFound`: from every way a failure can be raised the
  classification digs out its root, or the timeout a cancellation was turned into.  With
  it `CausesAreNamed` needs only what holds between the stages (`StageFacts`: a request is
  probed only after a refusal that carried credentials, it waits to be repeated only after an exception that
  may be repeated), and `TransientsRepeated` is the second half of the same facts.
  `RequestShrinks`: five stages for each attempt not yet made and those of the present one
  are at most `5 * MaxRetries + 6`, and every step, a cancellation included, makes them fewer.
  It bounds the number of steps, not their duration.
* `TestSessionsProofs`.  Nothing in the routes compares the item of a session with the item of the path, so the
  argument is about identifiers: they are given out once (`StoreNumbered`,
  `FlowsNumbered`), and every step leaves each of them with the item it had, or gone
  (`Evolves`).  Hence whatever a dialog, a note, a request or a flow refers to is the
  session it always was or no session (`Bound`), and tokens cannot change sides.  `LiveHasDialog`
  and `StartsBound` say the same of answers that arrive late, `PolledBound` of the session the timer asks about.  `SessionsKeepPromise` maps every step to
  one of `SessionPromise` or a stutter; what it needs beyond the invariant is that a flow not
  started has no context and that what is exchanged was taken (`Unstarted`).  A handler that saves
  a session which went while it waited opens a new identifier, so the new session is a
  fresh one of the promise (`EnsuredIsFree`).
* `SearchCascadeProofs`.  All six properties of the run `search`, for any number of searches
  at once, any catalogs, offers and settings.  What deduplication and merge compute depends on
  induction over a list, and that the functions defined by going through one exist depends on it
  too; `NatSetInduction` gets it from the well-foundedness of finite sets under inclusion,
  `Recursion` uses it once, and `IsRecursion` is then all that `DeduplicateFacts` and
  `MergeFacts` need.  The first says that every item is represented by one with its key
  (`Covered`), the second that the rows of a merge name disjoint repositories, each the
  repository of a cached row or of a live item: a live item that takes the place of a cached row
  leaves `owned` as it was, which is harmless only because an item filed under a candidate's
  identity has that candidate's repository (`Genuine`).  `Arrangement` shows that `Arranged`
  permutes the positions it is given, so `Keep`, ranking, truncation and tiers neither add nor
  repeat a row.  `IInv` is `StoreSound` for the catalog and `Sound` for the record of every search; `Sound` mentions
  the rest of the state only through the keys ever filed and the repositories ever badged,
  which only grow (`SoundGrows`), so that what a search read stays good while others move.
  `MergeFacts` also says that nothing is lost: every row and item merged has a row with its identity or
  one of its repositories (`Represented`).  Which one is decided before ranking, so an item can be
  represented by a row that fits the query less well and is then left out.
  `SearchShownInOrder` rests on arithmetic: given scores of at most `ScoreRange`, the final
  scores of the four levels of fit lie in disjoint intervals (`WeightBounds`), so sorting by them sorts by
  level, truncation and `Keep` preserve that, and the tiers are stable.  Partial matches
  are one level here; how two of them compare is not modelled.  `SearchDescends`: the
  phase of a search, and within it the sources to hear or the rows to read and write, fall
  in a well-founded order with each of its steps.

Each inductive invariant was model-checked before it was proved.

Only model-checked: every liveness property (`QueueDrains`, `ReviewFinishes`, `ExpiredIsReverified`,
`PickedUp`, `ExpiredIsReaped`, `OrphansEnd`, `ConnectEnds`, `RequestEndsOrWaits`), fairness and `ENABLED` being
out of the prover's reach.  What the proofs add to them is the half that needs neither: `RequestShrinks`,
`ConnectShrinks` and `SearchDescends` rule out that a request, a connect or a search goes on for
ever, for any parameters; `QueuedAreKept` and `TakenByTheLoop` that a waiting row is lost; that each goes on at
all until it is over is what TLC checks: by the liveness properties of `localrpc` and `remote`, and by the deadlock
check of `search`, whose specification may come to rest only when no search is under way (`AtRest`).

## 7. Disagreements between the code and its words

Each is in `PROJECT.json` under `findings`, with the line it quotes.  Refuted by a
run: `ReviewFinishes` with a full page of exhausted reviews, `EveryTermFinishes`,
`ResumeFindsToken`, `OnlyNetworkFailuresAreRepeated`.  Refuted under a configuration kept beside the
runs: `BadgeFollowsVerdict`, `GateComesFirst`, `LiveSessionHasContainer`,
`MarkedIsCleanedUp`.  Met while modelling:

* *Cold misses.*  An interrupted look-up asks GitHub although the registry had servers,
  and every done term is looked up again whatever it found.
* *Stdio client.*  It takes a server's own request for the answer to the call of the same
  number, stops reading at a line that is no object, and lets calls wait out their timeouts after
  the end of the output or a disconnect.
* *Sandbox.*  A failed installation leaves its container running; the per-user session limit is
  never applied to users' tests.
* *Remote client.*  A group of exceptions is turned into an HTTP error that the clause meant for
  it does not catch; a bare refusal by a host known to be incompatible is answered
  without its reason; the digits 401 or 403 anywhere in a message, its URL included, count as
  a refusal; a cancellation is taken for a timeout and repeated; the constructor of the
  invoke route raises outside its `try`; a result can hold both a refusal and an error; the
  promised timeout does not bound a session, its handshake or its calls.
* *Test sessions.*  The callback at the stable redirect of a provider without registration is always rejected;
  sessions never expire, because asking whether one has expired renews it; the token
  of a session is not keyed by item, as the store's comment says; the provider consent
  of the verification API never stores its flow.
* *Search.*  The service search is called with an argument it does not take (`search/mcp_adapter.py:164`), so that
  source fails in every search that is to use it;
  the fallback after a cold miss is always empty; a row the catalog owns is never refreshed by
  a live item; the early stop is not deduplicated; `first_seen` is overwritten; the gate is
  closed, not open, without a registry; the cascade stops on raw candidates, not on
  approved ones; of a cached source tree only the list is kept.

## 8. Not modelled

The components with status `not_modelled` in `PROJECT.json`, with the reason given
there: the artifact cache (its two stores fail apart, but a lost entry costs a second download and
nothing depends on both agreeing), the classifier and the extraction of run
configurations (string heuristics without state), the semantic judge (a call whose
verdict is an input), and the result pages.

Within the modelled components:

* the text of errors and log lines; the contents of requests to servers, registries
  and Docker, whose outcomes are inputs; the language model's judgement (an input of `Scoring`);
* the pipeline's branch that validates a candidate against a live server (`normalization/pipeline.py:211-285`):
  production injects neither the resolver nor the command it needs;
* embedding distances in the ranking: how well an item fits a query is a level;
* sessions running out: loading one renews it, so only a session nobody asks for could, and
  nothing sweeps those; the requests behind `authorize_start` for the provider's
  metadata and registration are one step that may fail;
* the provider consent of `verification/api.py`, which cannot complete, and provider credentials in
  verification runs, whose repository is never handed to the pipeline (`queue.py:78`);
* seeding, which runs before the application and is its initial catalog.
