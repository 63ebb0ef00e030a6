------------------------------ MODULE ColdMiss ------------------------------
(***************************************************************************)
(* Search terms the registry had no answer for.  A search that finds       *)
(* nothing answers at once and records its term in a task of its own; one  *)
(* background loop asks the official registry, and then GitHub, about the  *)
(* recorded terms (verification/queue.py run_cold_miss_cascade and         *)
(* cold_miss_loop, repository.py ColdMissQueryRepository, api.py           *)
(* search_servers).                                                        *)
(*                                                                         *)
(* A term has one row, kept by a unique index.  Every action is one round  *)
(* trip to the database or to a source, so a search may record a term      *)
(* between any two steps of the loop.                                      *)
(***************************************************************************)
EXTENDS Naturals, FiniteSets

CONSTANTS
  Term,             \* search terms
  NoTerm,           \* "no term in hand"
  Search,           \* searches that miss (bound: each records one term)
  Rank,             \* the order in which the database returns rows
  PageLimit,        \* rows the loop takes at a time (5 in the code)
  MaxFaults         \* bound: exceptions and restarts in a behaviour

ASSUME ColdMissAssumption ==
  /\ NoTerm \notin Term
  /\ Rank \in [Term -> Nat]
  /\ PageLimit \in Nat \ {0} /\ MaxFaults \in Nat

VARIABLES
  row,              \* the row of each term
  search,           \* what each search is about to write, and for which term
  batch,            \* terms the loop has read and not yet looked up
  pc, term,         \* the loop: its step and its term
  githubDone,       \* the flag of the row, as read at the start of the term
  hits,             \* this look-up brought a server that is new here
  asked,            \* history: sources that were ever asked for each term
  hit,              \* history: terms the registry had servers for, since queued
  interrupted,      \* history: terms whose look-up was cut short
  faults            \* history: faults used up

rows   == <<row, search>>
loop   == <<batch, pc, term, githubDone, hits>>
ghosts == <<asked, hit, interrupted>>
vars   == <<rows, loop, ghosts, faults>>

-----------------------------------------------------------------------------
Row == [status : {"absent", "queued", "checking_registry", "checking_github", "done"},
        registry_done : BOOLEAN, github_done : BOOLEAN, servers_found : BOOLEAN]

Absent == [status |-> "absent", registry_done |-> FALSE, github_done |-> FALSE, servers_found |-> FALSE]

\* faulty: the status word of the other queue
RequeuedPending(r) ==
  [r EXCEPT !.status = "pending", !.registry_done = FALSE, !.github_done = FALSE]

\* servers_found keeps its old value
Requeued(r) ==
  [r EXCEPT !.status = "queued", !.registry_done = FALSE, !.github_done = FALSE]

Idle == [step |-> "idle", term |-> NoTerm]

\* faulty: rows the loop died on are not selected again
PendingQueued == {t \in Term : row[t].status = "queued"}

Pending == {t \in Term : row[t].status \in {"queued", "checking_registry"}}

Page(S)     == {t \in S : Cardinality({u \in S : Rank[u] < Rank[t]}) < PageLimit}
First(t, S) == t \in S /\ \A u \in S : Rank[t] <= Rank[u]

Fault == faults < MaxFaults /\ faults' = faults + 1

Init ==
  /\ row = [t \in Term |-> Absent]
  /\ search = [q \in Search |-> Idle]
  /\ batch = {} /\ pc = "idle" /\ term = NoTerm /\ githubDone = FALSE /\ hits = FALSE
  /\ asked = [t \in Term |-> {}] /\ hit = {} /\ interrupted = {}
  /\ faults = 0

-----------------------------------------------------------------------------
(* enqueue: read the row, then create it, reset it, or leave it alone.      *)

EnqueueRead(q, t) ==
  /\ search[q].step = "idle"
  /\ search' = [search EXCEPT ![q] =
       [step |-> CASE row[t].status = "absent" -> "create"
                   [] row[t].status = "done"   -> "reset"
                   [] OTHER                    -> "answered",
        term |-> t]]
  /\ UNCHANGED <<row, loop, ghosts, faults>>

\* A row that appeared since the read makes the unique index refuse the
\* second one; the failure of the task is only logged.
EnqueueCreate(q) ==
  LET t == search[q].term IN
  /\ search[q].step = "create"
  /\ row' = IF row[t].status = "absent" THEN [row EXCEPT ![t] = Requeued(@)] ELSE row
  /\ search' = [search EXCEPT ![q].step = "answered"]
  /\ UNCHANGED <<loop, ghosts, faults>>

EnqueueReset(q) ==
  LET t == search[q].term IN
  /\ search[q].step = "reset"
  /\ row' = [row EXCEPT ![t] = Requeued(@)]
  /\ search' = [search EXCEPT ![q].step = "answered"]
  /\ hit' = hit \ {t} /\ interrupted' = interrupted \ {t}
  /\ UNCHANGED <<loop, asked, faults>>

-----------------------------------------------------------------------------
(* cold_miss_loop and run_cold_miss_cascade                                 *)

Goto(step) == pc' = step /\ UNCHANGED <<batch, term, githubDone>>

EndTerm == pc' = "idle" /\ term' = NoTerm /\ githubDone' = FALSE /\ hits' = FALSE

TakeBatch ==
  /\ pc = "idle" /\ batch = {} /\ Pending # {}
  /\ batch' = Page(Pending)
  /\ UNCHANGED <<rows, pc, term, githubDone, hits, ghosts, faults>>

FirstStep(r) == IF ~r.registry_done THEN "mark_registry"
                ELSE IF ~r.github_done THEN "mark_github" ELSE "idle"

TakeTerm(t) ==
  /\ pc = "idle" /\ First(t, batch)
  /\ batch' = batch \ {t}
  /\ pc' = FirstStep(row[t])
  /\ term' = IF pc' = "idle" THEN NoTerm ELSE t
  /\ githubDone' = row[t].github_done
  /\ UNCHANGED <<rows, hits, ghosts, faults>>

MarkRegistry ==
  /\ pc = "mark_registry"
  /\ row' = [row EXCEPT ![term].status = "checking_registry"]
  /\ Goto("ask_registry")
  /\ UNCHANGED <<search, hits, ghosts, faults>>

\* The registry answers, fails or is not configured; what it offers is
\* ingested, and only servers that are new and pass the prefilter count.
AskRegistry ==
  /\ pc = "ask_registry"
  /\ \E new \in BOOLEAN :
       /\ hits' = new
       /\ hit' = IF new THEN hit \cup {term} ELSE hit
  /\ asked' = [asked EXCEPT ![term] = @ \cup {"registry"}]
  /\ Goto("record_registry")
  /\ UNCHANGED <<rows, interrupted, faults>>

\* faulty: falls through to GitHub whatever the registry had
AlwaysGithub == "mark_github"

\* faulty: nothing is asked after the registry
NeverGithub == "finish"

AfterRegistry == IF hits THEN "finish" ELSE IF ~githubDone THEN "mark_github" ELSE "idle"

RecordRegistry ==
  /\ pc = "record_registry"
  /\ row' = [row EXCEPT ![term].registry_done = TRUE, ![term].servers_found = hits]
  /\ IF AfterRegistry = "idle" THEN EndTerm /\ UNCHANGED batch
     ELSE Goto(AfterRegistry) /\ UNCHANGED hits
  /\ UNCHANGED <<search, ghosts, faults>>

Finish ==
  /\ pc = "finish"
  /\ row' = [row EXCEPT ![term].status = "done"]
  /\ EndTerm
  /\ UNCHANGED <<search, batch, ghosts, faults>>

MarkGithub ==
  /\ pc = "mark_github"
  /\ row' = [row EXCEPT ![term].status = "checking_github"]
  /\ Goto("ask_github")
  /\ UNCHANGED <<search, hits, ghosts, faults>>

AskGithub ==
  /\ pc = "ask_github"
  /\ \E new \in BOOLEAN : hits' = (hits \/ new)
  /\ asked' = [asked EXCEPT ![term] = @ \cup {"github"}]
  /\ Goto("record_github")
  /\ UNCHANGED <<rows, hit, interrupted, faults>>

RecordGithub ==
  /\ pc = "record_github"
  /\ row' = [row EXCEPT ![term].github_done = TRUE, ![term].servers_found = hits,
                        ![term].status = "done"]
  /\ EndTerm
  /\ UNCHANGED <<search, batch, ghosts, faults>>

\* A database call or the ingestion of a candidate raises: the exception is
\* suppressed and the loop goes on with the next term.  Candidates ingested
\* before the exception stay, uncounted.
TermFails ==
  /\ pc # "idle"
  /\ Fault
  /\ interrupted' = interrupted \cup {term}
  /\ EndTerm
  /\ UNCHANGED <<rows, batch, asked, hit>>

\* The process restarts: the rows stay, loop and pending writes are lost.
Restart ==
  /\ Fault
  /\ interrupted' = interrupted \cup ({term} \ {NoTerm})
  /\ batch' = {} /\ EndTerm
  /\ search' = [q \in Search |->
       IF search[q].step = "idle" THEN search[q] ELSE [search[q] EXCEPT !.step = "answered"]]
  /\ UNCHANGED <<row, asked, hit>>

Cascade ==
  \/ TakeBatch \/ \E t \in Term : TakeTerm(t)
  \/ MarkRegistry \/ AskRegistry \/ RecordRegistry \/ Finish
  \/ MarkGithub \/ AskGithub \/ RecordGithub

Next ==
  \/ Cascade \/ TermFails \/ Restart
  \/ \E q \in Search :
       \/ \E t \in Term : EnqueueRead(q, t)
       \/ EnqueueCreate(q) \/ EnqueueReset(q)

Spec == Init /\ [][Next]_vars

\* The loop never returns; a search need not happen or finish its writes.
FairSpec == Spec /\ WF_vars(Cascade)

-----------------------------------------------------------------------------
Step == {"idle", "mark_registry", "ask_registry", "record_registry", "finish",
         "mark_github", "ask_github", "record_github"}

TypeOK ==
  /\ row \in [Term -> Row]
  /\ search \in [Search -> [step : {"idle", "create", "reset", "answered"}, term : Term \cup {NoTerm}]]
  /\ \A q \in Search : search[q].step # "idle" => search[q].term \in Term
  /\ batch \subseteq Term
  /\ pc \in Step
  /\ term \in Term \cup {NoTerm} /\ (pc # "idle" => term \in Term)
  /\ githubDone \in BOOLEAN /\ hits \in BOOLEAN
  /\ asked \in [Term -> SUBSET {"registry", "github"}]
  /\ hit \subseteq Term /\ interrupted \subseteq Term
  /\ faults \in 0..MaxFaults

\* A term is closed only on answers: the registry was asked about it, and
\* GitHub too unless the row says the registry had something.  Holds across
\* late resets, exceptions and restarts between the updates of a look-up.
DoneStandsOnAnswers ==
  \A t \in Term : row[t].status = "done" =>
    /\ "registry" \in asked[t]
    /\ row[t].servers_found \/ "github" \in asked[t]

\* queue.py: "only fall through to GitHub when the official registry found
\* nothing".  True of every look-up that was not cut short before.
GithubIsFallback ==
  [][\A t \in Term :
       pc = "ask_github" /\ term = t /\ pc' = "record_github" => t \notin hit \/ t \in interrupted]_vars

\* Every recorded term is taken up, in spite of a bounded number of faults:
\* it reaches its end, or the GitHub step.
PickedUp ==
  \A t \in Term : t \in Pending ~> row[t].status \in {"done", "checking_github"}

\* queue.py: enqueue_cold_miss "persists the term; the cascade loop picks it
\* up".  Refuted by a run: list_pending never selects a row that an exception
\* or a restart left in checking_github, and enqueue refuses to reset it.
EveryTermFinishes ==
  \A t \in Term : row[t].status # "absent" ~> row[t].status = "done"
=============================================================================
