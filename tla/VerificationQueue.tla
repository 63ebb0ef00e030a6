------------------------- MODULE VerificationQueue -------------------------
(***************************************************************************)
(* The registry of MCP servers and everything that writes to it: the       *)
(* verification worker, the ingestion gate of the cold-miss loop, the TTL  *)
(* sweep, the API handlers of the review queue and the badge a user's own  *)
(* test leaves behind (backend/app/verification: queue.py, verifiers.py,   *)
(* repository.py, api.py, bridge.py).                                      *)
(*                                                                         *)
(* The database is reached over HTTP, so every read and every write is an  *)
(* await at which the other coroutines run.  An action below is therefore  *)
(* one database round trip: what a handler read in one action it uses,     *)
(* possibly stale, in a later one.  An update sets only the fields it      *)
(* names; the last writer wins.                                            *)
(***************************************************************************)
EXTENDS Scoring, FiniteSets

CONSTANTS
  Server,           \* servers the sources can offer
  NoServer,         \* "no record in hand"
  Unfit,            \* servers the static prefilter refuses
  Oversize,         \* servers only the package-size gate refuses
  Rank,             \* the order in which the database returns rows
  QueueLimit,       \* rows read per poll of the queue (5 in the code)
  ReviewLimit,      \* rows read per poll of the review bucket (20)
  MaxRequests,      \* bound: API requests and user tests in a behaviour
  MaxFaults,        \* bound: exceptions and restarts in a behaviour
  MaxExpiries       \* bound: TTL expiries in a behaviour

ASSUME QueueAssumption ==
  /\ NoServer \notin Server
  /\ Unfit \subseteq Server /\ Oversize \subseteq Server
  /\ Rank \in [Server -> Nat]
  /\ QueueLimit \in Nat \ {0} /\ ReviewLimit \in Nat \ {0}
  /\ MaxRequests \in Nat /\ MaxFaults \in Nat /\ MaxExpiries \in Nat

VARIABLES
  known,            \* servers with a record
  rec,              \* their records
  pc, job, snap,    \* the worker: its step, its server, what it read of it
  gating,           \* the server the ingestion gate is looking at
  sweeping,         \* expired records the TTL sweep still has to reset
  rechecking,       \* recheck requests between their two updates
  approving,        \* approve requests that have passed their checks
  proven,           \* history: servers seen to work
  spent             \* history: bounded events used up

vars == <<known, rec, pc, job, snap, gating, sweeping, rechecking, approving, proven, spent>>
worker   == <<pc, job, snap>>
handlers == <<gating, sweeping, rechecking, approving>>

-----------------------------------------------------------------------------
(* McpServerRecord, the fields decisions depend on.  since is the age of    *)
(* last_attempt_at in the levels of RetryDelay; never attempted counts as 2.*)

Transport == {"local", "remote"}

Record ==
  [transport : Transport, status : Status,
   attempts : 0..RemoteAttempts, planned : 1..RemoteAttempts, since : 0..2,
   invoked : BOOLEAN, badge : BOOLEAN,
   via : {"none", "anonymous", "manual_review", "user_test"},
   ttl : {"none", "live", "expired"}]

Fresh(transport) ==
  [transport |-> transport, status |-> "pending", attempts |-> 0, planned |-> 1, since |-> 2,
   invoked |-> FALSE, badge |-> FALSE, via |-> "none", ttl |-> "none"]

NoSnap == [attempts |-> 0, badge |-> FALSE]

Planned(r) == IF r.transport = "local" THEN 1 ELSE RemoteAttempts

InStatus(S) == {s \in known : rec[s].status \in S}
Expired     == {s \in InStatus({"verified"}) : rec[s].ttl = "expired"}
Due(s)      == rec[s].since >= RetryDelay(rec[s].attempts)

\* the first limit rows of a query result
Page(S, limit) == {s \in S : Cardinality({t \in S : Rank[t] < Rank[s]}) < limit}
First(s, S)    == s \in S /\ \A t \in S : Rank[s] <= Rank[t]

\* faulty: the query asks for pending records only
QueuedPending == Page(InStatus({"pending"}), QueueLimit)

Queued == {s \in Page(InStatus({"pending", "retry_pending"}), QueueLimit) :
             rec[s].status = "pending" \/ Due(s)}

NeverUnfinished == {}      \* faulty: review records are not retried at all

Unfinished == {s \in Page(InStatus({"review"}), ReviewLimit) :
                 rec[s].attempts < rec[s].planned /\ Due(s)}

Request == spent.requests < MaxRequests /\ spent' = [spent EXCEPT !.requests = @ + 1]
Fault   == spent.faults < MaxFaults     /\ spent' = [spent EXCEPT !.faults = @ + 1]
Expiry  == spent.expiries < MaxExpiries /\ spent' = [spent EXCEPT !.expiries = @ + 1]

Init ==
  /\ known = {} /\ rec = [s \in Server |-> Fresh("remote")]
  /\ pc = "queue" /\ job = NoServer /\ snap = NoSnap
  /\ gating = NoServer /\ sweeping = {} /\ rechecking = {} /\ approving = {}
  /\ proven = {}
  /\ spent = [requests |-> 0, faults |-> 0, expiries |-> 0]

-----------------------------------------------------------------------------
(* Ingestion: a new record is stored as pending BEFORE the gate, which asks *)
(* the package registries for the install size, has answered.               *)

Discover(s) ==
  /\ gating = NoServer /\ s \notin known
  /\ known' = known \cup {s}
  /\ \E t \in Transport : rec' = [rec EXCEPT ![s] = Fresh(t)]
  /\ gating' = s
  /\ UNCHANGED <<worker, sweeping, rechecking, approving, proven, spent>>

GateRefuses ==
  /\ gating \in Unfit \cup Oversize
  /\ \E st \in {"rejected", "malformed"} : rec' = [rec EXCEPT ![gating].status = st]
  /\ gating' = NoServer
  /\ UNCHANGED <<known, worker, sweeping, rechecking, approving, proven, spent>>

GatePasses ==
  /\ gating \in Server \ (Unfit \cup Oversize)
  /\ rec' = [rec EXCEPT ![gating].status = "pending"]
  /\ gating' = NoServer
  /\ UNCHANGED <<known, worker, sweeping, rechecking, approving, proven, spent>>

-----------------------------------------------------------------------------
(* process_next_server: three queries in turn until one offers a record.    *)

Take(s) ==
  /\ pc' = "verify" /\ job' = s
  /\ snap' = [attempts |-> rec[s].attempts, badge |-> rec[s].badge]

Poll(here, S, otherwise) ==
  /\ pc = here
  /\ \/ \E s \in S : First(s, S) /\ Take(s)
     \/ S = {} /\ pc' = otherwise /\ UNCHANGED <<job, snap>>
  /\ UNCHANGED <<known, rec, handlers, proven, spent>>

PollQueue   == Poll("queue", Queued, "expired")
PollExpiredIgnored == Poll("expired", {}, "review")      \* faulty: never re-verifies
PollExpired == Poll("expired", Expired, "review")
PollReview  == Poll("review", Unfinished, "queue")

Release == pc' = "queue" /\ job' = NoServer /\ snap' = NoSnap

PrefilterRefuses ==
  /\ pc = "verify" /\ job \in Unfit
  /\ \E st \in {"rejected", "malformed"} : rec' = [rec EXCEPT ![job].status = st]
  /\ Release
  /\ UNCHANGED <<known, handlers, proven, spent>>

CompletedUncapped(r) == snap.attempts + 1      \* faulty: the min() is gone

\* the attempt counter, from the one the worker read when it took the server
Completed(r) == IF snap.attempts < Planned(r) THEN snap.attempts + 1 ELSE Planned(r)

\* The fields _finalize writes over the current record r.
Finalized(r, run) ==
  LET verdict == Verdict(run, Completed(r), Planned(r))
      success == run.kind = "success"
      earned  == verdict = "verified" /\ run.tally.ok > 0
      cleared == ~success /\ snap.badge
  IN [transport |-> r.transport, status |-> verdict,
      attempts |-> Completed(r), planned |-> Planned(r), since |-> 0,
      invoked  |-> IF success THEN run.tally.ok > 0 ELSE r.invoked,
      badge    |-> (r.badge \/ (success /\ earned)) /\ ~cleared,
      via      |-> IF success /\ earned THEN "anonymous" ELSE IF cleared THEN "none" ELSE r.via,
      ttl      |-> IF ~success THEN r.ttl ELSE IF verdict = "verified" THEN "live" ELSE "none"]

Finalize ==
  /\ pc = "verify" /\ job \in Server \ Unfit
  /\ \E run \in IF rec[job].transport = "local" THEN LocalRuns ELSE RemoteRuns :
       /\ rec' = [rec EXCEPT ![job] = Finalized(rec[job], run)]
       /\ proven' = IF Succeeded(run) THEN proven \cup {job} ELSE proven
  /\ pc' = "decide"
  /\ UNCHANGED <<known, job, snap, handlers, spent>>

RecordDecision ==
  /\ pc = "decide"
  /\ Release
  /\ UNCHANGED <<known, rec, handlers, proven, spent>>

\* The run, or the bookkeeping after its verdict was written, raises.
VerificationRaises ==
  /\ pc \in {"verify", "decide"} /\ job \notin Unfit
  /\ Fault
  /\ rec' = [rec EXCEPT ![job].status = "retry_pending", ![job].since = 0]
  /\ Release
  /\ UNCHANGED <<known, handlers, proven>>

\* A database call outside the guarded part raises; the loop starts over.
IterationFails ==
  /\ pc # "queue"
  /\ Fault
  /\ Release
  /\ UNCHANGED <<known, rec, handlers, proven>>

-----------------------------------------------------------------------------
(* The TTL cron: one query, then one update per record it returned.         *)

SweepStart ==
  /\ sweeping = {} /\ Expired # {}
  /\ sweeping' = Expired
  /\ UNCHANGED <<known, rec, worker, gating, rechecking, approving, proven, spent>>

SweepReset(s) ==
  /\ s \in sweeping
  /\ rec' = [rec EXCEPT ![s].attempts = 0]
  /\ sweeping' = sweeping \ {s}
  /\ UNCHANGED <<known, worker, gating, rechecking, approving, proven, spent>>

-----------------------------------------------------------------------------
(* API handlers and the sandbox test endpoints.                             *)

RecheckReset(s) ==
  /\ s \in known /\ s \notin rechecking
  /\ Request
  /\ rec' = [rec EXCEPT ![s].attempts = 0]
  /\ rechecking' = rechecking \cup {s}
  /\ UNCHANGED <<known, worker, gating, sweeping, approving, proven>>

RecheckRequeue(s) ==
  /\ s \in rechecking
  /\ rec' = [rec EXCEPT ![s].status = "pending"]
  /\ rechecking' = rechecking \ {s}
  /\ UNCHANGED <<known, worker, gating, sweeping, approving, proven, spent>>

\* faulty: the rule 8 check on the invocation is gone
ApprovableByStatus(s) == rec[s].status \in {"review", "partial_verified"}

Approvable(s) == rec[s].status \in {"review", "partial_verified"} /\ rec[s].invoked

ApproveCheck(s) ==
  /\ s \in known /\ s \notin approving
  /\ Approvable(s)
  /\ Request
  /\ approving' = approving \cup {s}
  /\ UNCHANGED <<known, rec, worker, gating, sweeping, rechecking, proven>>

ApproveWrite(s) ==
  /\ s \in approving
  /\ rec' = [rec EXCEPT ![s].status = "verified", ![s].badge = TRUE,
                        ![s].via = "manual_review", ![s].ttl = "live"]
  /\ approving' = approving \ {s}
  /\ UNCHANGED <<known, worker, gating, sweeping, rechecking, proven, spent>>

Reject(s) ==
  /\ s \in known
  /\ Request
  /\ rec' = [rec EXCEPT ![s].status = "rejected"]
  /\ UNCHANGED <<known, worker, handlers, proven>>

\* faulty: the badge is written without a TTL
UserTestedForever(r, t) ==
  [transport |-> t, status |-> "verified", attempts |-> 1, planned |-> 1, since |-> r.since,
   invoked |-> TRUE, badge |-> TRUE, via |-> "user_test", ttl |-> r.ttl]

UserTested(r, t) ==
  [transport |-> t, status |-> "verified", attempts |-> 1, planned |-> 1, since |-> r.since,
   invoked |-> TRUE, badge |-> TRUE, via |-> "user_test", ttl |-> "live"]

\* A user's sandbox test succeeds; a server without a record gets one.
UserTest(s) ==
  /\ Request
  /\ known' = known \cup {s}
  /\ \E t \in Transport :
       /\ s \in known => t = rec[s].transport
       /\ rec' = [rec EXCEPT ![s] = UserTested(@, t)]
  /\ proven' = proven \cup {s}
  /\ UNCHANGED <<worker, handlers>>

-----------------------------------------------------------------------------
(* Time and restarts.                                                       *)

\* Ages are only read of records that wait for a retry.
Age(s) ==
  /\ s \in InStatus({"review", "retry_pending"}) /\ rec[s].since < 2
  /\ rec' = [rec EXCEPT ![s].since = @ + 1]
  /\ UNCHANGED <<known, worker, handlers, proven, spent>>

Expire(s) ==
  /\ s \in known /\ rec[s].ttl = "live"
  /\ Expiry
  /\ rec' = [rec EXCEPT ![s].ttl = "expired"]
  /\ UNCHANGED <<known, worker, handlers, proven>>

\* A handler or a background sweep raises at one of its awaits.
HandlerFails ==
  /\ Fault
  /\ \/ gating # NoServer /\ gating' = NoServer /\ UNCHANGED <<sweeping, rechecking, approving>>
     \/ sweeping # {} /\ sweeping' = {} /\ UNCHANGED <<gating, rechecking, approving>>
     \/ /\ \E s \in rechecking : rechecking' = rechecking \ {s}
        /\ UNCHANGED <<gating, sweeping, approving>>
     \/ /\ \E s \in approving : approving' = approving \ {s}
        /\ UNCHANGED <<gating, sweeping, rechecking>>
  /\ UNCHANGED <<known, rec, worker, proven>>

\* The process restarts: the records survive, everything in flight is lost.
Restart ==
  /\ Fault
  /\ Release
  /\ gating' = NoServer /\ sweeping' = {} /\ rechecking' = {} /\ approving' = {}
  /\ UNCHANGED <<known, rec, proven>>

Work == \/ PollQueue \/ PollExpired \/ PollReview
        \/ PrefilterRefuses \/ Finalize \/ RecordDecision

Next ==
  \/ Work \/ VerificationRaises \/ IterationFails \/ HandlerFails \/ Restart
  \/ GateRefuses \/ GatePasses \/ SweepStart
  \/ \E s \in Server :
       \/ Discover(s) \/ SweepReset(s)
       \/ RecheckReset(s) \/ RecheckRequeue(s) \/ ApproveCheck(s) \/ ApproveWrite(s)
       \/ Reject(s) \/ UserTest(s)
       \/ Age(s) \/ Expire(s)

Spec == Init /\ [][Next]_vars

\* The event loop keeps running the coroutines that have started and time
\* passes; no request, fault, expiry, sweep or discovery has to happen.
Fairness ==
  /\ WF_vars(Work)
  /\ WF_vars(GateRefuses \/ GatePasses)
  /\ WF_vars(\E s \in Server : RecheckRequeue(s))
  /\ WF_vars(\E s \in Server : Age(s))

FairSpec == Spec /\ Fairness

-----------------------------------------------------------------------------
(* Safety.                                                                  *)

TypeOK ==
  /\ known \subseteq Server
  /\ rec \in [Server -> Record]
  /\ pc \in {"queue", "expired", "review", "verify", "decide"}
  /\ job \in known \cup {NoServer}
  /\ pc \in {"verify", "decide"} <=> job # NoServer
  /\ snap \in [attempts : 0..RemoteAttempts, badge : BOOLEAN]
  /\ gating \in known \cup {NoServer}
  /\ sweeping \subseteq known /\ rechecking \subseteq known /\ approving \subseteq known
  /\ proven \subseteq known
  /\ spent \in [requests : 0..MaxRequests, faults : 0..MaxFaults, expiries : 0..MaxExpiries]

\* Rule 8 across every interleaving of worker, reviewer and user: whatever is
\* listed, badged or claims a verified invocation has been seen to work, even
\* when a reviewer's approval is written over a newer, failing run.
SeenToWork ==
  \A s \in known :
    rec[s].status = "verified" \/ rec[s].badge \/ rec[s].invoked => s \in proven

\* No listed record is half written: it carries the badge the cards show, a
\* TTL (without one list_expired_ttl would never offer it for re-verification)
\* and an invocation, unless a human vouched for it.
ListedIsComplete ==
  \A s \in InStatus({"verified"}) :
    /\ rec[s].badge
    /\ rec[s].ttl # "none"
    /\ rec[s].invoked \/ rec[s].via = "manual_review"

\* A run decides for good (verified or rejected) only as the last planned
\* attempt; before that its record stays in review or in the retry queue.
DecisiveOnlyWhenDone ==
  [][\A s \in Server :
       pc = "verify" /\ job = s /\ pc' = "decide" /\ rec'[s].status \in {"verified", "rejected"}
         => rec'[s].attempts = rec'[s].planned]_vars

\* The registry implements the promise of ProvenListing.
Listing == INSTANCE ProvenListing WITH listed <- InStatus({"verified"})
ImplementsListing == Listing!Spec

-----------------------------------------------------------------------------
(* What the comments of the code say and the code does not do: each of the  *)
(* next two is refuted by a run.                                            *)

\* verifiers.py: the badge "is cleared the moment any later run fails to reach
\* a verified verdict" - a run that connects but scores lower leaves it.
BadgeFollowsVerdict ==
  [][\A s \in Server :
       pc = "verify" /\ job = s /\ pc' = "decide" /\ rec'[s].badge
         => rec'[s].status = "verified"]_vars

\* queue.py: "malformed / known-incompatible / oversized entries never enter
\* the verification queue", so no run is ever spent on one.
GateComesFirst == pc = "verify" => job \notin Oversize

-----------------------------------------------------------------------------
(* Liveness, under FairSpec.                                                *)

\* Every queued record reaches a verdict that is not another retry.
QueueDrains ==
  \A s \in Server :
    s \in InStatus({"pending", "retry_pending"}) ~> s \notin InStatus({"pending", "retry_pending"})

\* A record in review gets the attempts it was promised.
ReviewFinishes ==
  LET waiting(s) == s \in InStatus({"review"}) /\ rec[s].attempts < rec[s].planned
  IN \A s \in Server : waiting(s) ~> ~waiting(s)

\* An expired listing is re-verified, one way or the other.
ExpiredIsReverified == \A s \in Server : s \in Expired ~> s \notin Expired
=============================================================================
