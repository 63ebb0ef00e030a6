---------------------- MODULE VerificationQueueProofs ----------------------
(***************************************************************************)
(* The registry keeps its promises for every set of servers, every page    *)
(* size and every number of requests, faults and expiries.                 *)
(*                                                                         *)
(* The inductive invariant IInv adds one fact to the properties it is for: *)
(* an approval in flight is for a server that has been seen to work.  An   *)
(* approve request writes long after it has read, over whatever a newer    *)
(* run left, so the record alone no longer says what its check saw.        *)
(***************************************************************************)
EXTENDS VerificationQueue, ScoringProofs, FiniteSetTheorems

ApprovalsEarned == approving \subseteq proven

IInv == TypeOK /\ SeenToWork /\ ListedIsComplete /\ ApprovalsEarned

-----------------------------------------------------------------------------
(* Single records.                                                          *)

\* What SeenToWork and ListedIsComplete ask of one record.
Entitled(r, seen) == r.status = "verified" \/ r.badge \/ r.invoked => seen
Complete(r) ==
  r.status = "verified" => r.badge /\ r.ttl # "none" /\ (r.invoked \/ r.via = "manual_review")

\* A new record is a record and claims nothing.
LEMMA FreshRecord ==
  ASSUME NEW t \in Transport
  PROVE  Fresh(t) \in Record /\ Entitled(Fresh(t), FALSE) /\ Complete(Fresh(t))
BY DEF Fresh, Record, Entitled, Complete, Status, RemoteAttempts

\* Moving a record out of the listing changes nothing it has earned.
LEMMA StatusWritten ==
  ASSUME NEW r \in Record, NEW st \in Status \ {"verified"}, NEW seen, Entitled(r, seen)
  PROVE  LET q == [r EXCEPT !.status = st]
         IN q \in Record /\ Entitled(q, seen) /\ Complete(q)
BY DEF Record, Entitled, Complete

\* The attempts of a finished run never pass the planned ones.
LEMMA CompletedRange ==
  ASSUME NEW r \in Record, TypeOK
  PROVE  Planned(r) \in 1..RemoteAttempts /\ Completed(r) \in 1..Planned(r)
BY DEF TypeOK, Planned, Completed, RemoteAttempts

\* _finalize writes a record; one that is listed or claims more than before is
\* backed by the run.
LEMMA FinalizedRecord ==
  ASSUME NEW r \in Record, NEW run \in LocalRuns \cup RemoteRuns, TypeOK, NEW seen,
         Entitled(r, seen), Succeeded(run) => seen
  PROVE  /\ Finalized(r, run) \in Record
         /\ Entitled(Finalized(r, run), seen)
         /\ Complete(Finalized(r, run))
<1> DEFINE verdict == Verdict(run, Completed(r), Planned(r))
<1>1. /\ Planned(r) \in 1..RemoteAttempts /\ Completed(r) \in 1..RemoteAttempts
      /\ Completed(r) \in 1..Planned(r)
  BY CompletedRange DEF RemoteAttempts
<1>2. verdict \in Status
  BY VerdictIsStatus
<1>3. verdict = "verified" => Succeeded(run)
  BY <1>1, VerifiedNeedsSuccess
<1>4. WellFormed(run) /\ run.tally \in Tally
  BY RunsWellFormed DEF WellFormed, Run
<1>5. run.tally.ok \in 0..5
  BY <1>4, TallyBounds
<1> DEFINE earned  == run.kind = "success" /\ verdict = "verified" /\ run.tally.ok > 0
           cleared == run.kind # "success" /\ snap.badge
           works   == run.tally.ok > 0
           badge   == (r.badge \/ earned) /\ ~cleared
           invoked == IF run.kind = "success" THEN works ELSE r.invoked
           ttl     == IF run.kind # "success" THEN r.ttl
                      ELSE IF verdict = "verified" THEN "live" ELSE "none"
<1>6. Finalized(r, run) =
        [transport |-> r.transport, status |-> verdict,
         attempts |-> Completed(r), planned |-> Planned(r), since |-> 0,
         invoked |-> invoked, badge |-> badge,
         via |-> IF earned THEN "anonymous" ELSE IF cleared THEN "none" ELSE r.via,
         ttl |-> ttl]
  BY DEF Finalized
<1>7. badge \in BOOLEAN /\ invoked \in BOOLEAN
  <2>1. r.invoked \in BOOLEAN
    BY DEF Record
  <2>2. works \in BOOLEAN
    BY <1>5
  <2>3. badge \in BOOLEAN
    OBVIOUS
  <2> HIDE DEF works
  <2> QED
    BY <2>1, <2>2, <2>3
<1>8. verdict = "verified" \/ badge \/ invoked => seen
  BY <1>3 DEF Entitled, Succeeded
<1>9. verdict = "verified" => badge /\ invoked /\ ttl # "none"
  BY <1>3 DEF Succeeded
<1>10. ttl \in {"none", "live", "expired"}
  BY DEF Record
<1> HIDE DEF verdict, earned, cleared, works, badge, invoked, ttl
<1>11. Finalized(r, run) \in Record
  BY <1>1, <1>2, <1>6, <1>7, <1>10 DEF Record
<1>12. /\ Finalized(r, run).status = verdict /\ Finalized(r, run).badge = badge
       /\ Finalized(r, run).invoked = invoked /\ Finalized(r, run).ttl = ttl
  BY <1>6
<1>13. Entitled(Finalized(r, run), seen)
  BY <1>8, <1>12, Zenon DEF Entitled
<1>14. Complete(Finalized(r, run))
  BY <1>9, <1>12, Zenon DEF Complete
<1> QED
  BY <1>11, <1>13, <1>14

\* Resetting the attempts of a record leaves what it claims alone.
LEMMA AttemptsReset ==
  ASSUME NEW r \in Record, NEW seen, Entitled(r, seen), Complete(r)
  PROVE  LET q == [r EXCEPT !.attempts = 0]
         IN q \in Record /\ Entitled(q, seen) /\ Complete(q)
BY DEF Record, Entitled, Complete, RemoteAttempts

\* So does the passing of time.
LEMMA RecordAged ==
  ASSUME NEW r \in Record, NEW n \in 0..2, NEW seen, Entitled(r, seen), Complete(r)
  PROVE  LET q == [r EXCEPT !.since = n]
         IN q \in Record /\ Entitled(q, seen) /\ Complete(q)
BY DEF Record, Entitled, Complete

\* And the end of a TTL.
LEMMA RecordExpired ==
  ASSUME NEW r \in Record, NEW seen, Entitled(r, seen), Complete(r)
  PROVE  LET q == [r EXCEPT !.ttl = "expired"]
         IN q \in Record /\ Entitled(q, seen) /\ Complete(q)
BY DEF Record, Entitled, Complete

\* A raised run parks its record for a retry, whatever it had become.
LEMMA RecordParked ==
  ASSUME NEW r \in Record, NEW seen, Entitled(r, seen)
  PROVE  LET q == [r EXCEPT !.status = "retry_pending", !.since = 0]
         IN q \in Record /\ Entitled(q, seen) /\ Complete(q)
<1> DEFINE p == [r EXCEPT !.status = "retry_pending"]
<1>1. p \in Record /\ Entitled(p, seen) /\ Complete(p)
  BY StatusWritten DEF Status
<1> HIDE DEF p
<1>2. LET q == [p EXCEPT !.since = 0] IN q \in Record /\ Entitled(q, seen) /\ Complete(q)
  BY <1>1 DEF Record, Entitled, Complete
<1> QED
  BY <1>2 DEF p

\* A reviewer's approval completes the record, but is no proof in itself.
LEMMA RecordApproved ==
  ASSUME NEW r \in Record
  PROVE  LET q == [r EXCEPT !.status = "verified", !.badge = TRUE,
                            !.via = "manual_review", !.ttl = "live"]
         IN q \in Record /\ Entitled(q, TRUE) /\ Complete(q)
BY DEF Record, Entitled, Complete, Status

\* A user's successful test completes the record.
LEMMA RecordUserTested ==
  ASSUME NEW r \in Record, NEW t \in Transport
  PROVE  /\ UserTested(r, t) \in Record
         /\ Entitled(UserTested(r, t), TRUE)
         /\ Complete(UserTested(r, t))
BY DEF UserTested, Record, Entitled, Complete, Status, RemoteAttempts

-----------------------------------------------------------------------------
(* The registry.                                                            *)

\* What a step owes the registry: sound records, and a listing that moves as
\* ProvenListing allows.
SoundStep ==
  /\ rec' \in [Server -> Record] /\ SeenToWork' /\ ListedIsComplete'
  /\ [Listing!Next]_<<InStatus({"verified"}), proven>>

\* A step that writes one sound record is sound.
LEMMA RecordWritten ==
  ASSUME TypeOK, SeenToWork, ListedIsComplete,
         NEW s \in Server, NEW r \in Record, rec' = [rec EXCEPT ![s] = r],
         known' = known \cup {s}, proven' = proven \/ proven' = proven \cup {s},
         Entitled(r, s \in proven'), Complete(r)
  PROVE  SoundStep
<1>1. rec' \in [Server -> Record] /\ rec'[s] = r /\ \A t \in Server \ {s} : rec'[t] = rec[t]
  BY DEF TypeOK
<1>2. SeenToWork'
  BY <1>1 DEF SeenToWork, TypeOK, Entitled
<1>3. ListedIsComplete'
  BY <1>1 DEF ListedIsComplete, InStatus, TypeOK, Complete
<1>4. [Listing!Next]_<<InStatus({"verified"}), proven>>
  <2> DEFINE listed == InStatus({"verified"})
  <2>1. listed' = IF r.status = "verified" THEN listed \cup {s} ELSE listed \ {s}
    BY <1>1 DEF InStatus, TypeOK
  <2>2. r.status = "verified" => s \in proven'
    BY DEF Entitled
  <2> HIDE DEF listed
  <2>3. listed' \in {listed \cup {s}, listed \ {s}}
    BY <2>1
  <2>4. CASE proven' = proven \cup {s}
    <3>1. Listing!Prove(s)
      BY <2>3, <2>4 DEF Listing!Prove, listed
    <3> QED
      BY <3>1 DEF Listing!Next
  <2>5. CASE proven' = proven /\ r.status = "verified"
    <3>1. Listing!List(s)
      BY <2>1, <2>2, <2>5 DEF Listing!List, listed
    <3> QED
      BY <3>1 DEF Listing!Next
  <2>6. CASE proven' = proven /\ r.status # "verified"
    <3>1. Listing!Delist(s)
      BY <2>1, <2>6 DEF Listing!Delist, listed
    <3> QED
      BY <3>1 DEF Listing!Next
  <2> QED
    BY <2>4, <2>5, <2>6
<1> QED
  BY <1>1, <1>2, <1>3, <1>4 DEF SoundStep

\* So is one that writes neither a record nor the history.
LEMMA RegistryUntouched ==
  ASSUME TypeOK, SeenToWork, ListedIsComplete, UNCHANGED <<known, rec, proven>>
  PROVE  SoundStep
BY DEF TypeOK, SeenToWork, ListedIsComplete, InStatus, SoundStep

\* What the invariant says of one record of the registry.
LEMMA SoundRecords ==
  ASSUME TypeOK, SeenToWork, ListedIsComplete, NEW s \in known
  PROVE  s \in Server /\ rec[s] \in Record /\ Entitled(rec[s], s \in proven) /\ Complete(rec[s])
BY DEF TypeOK, SeenToWork, ListedIsComplete, InStatus, Entitled, Complete

-----------------------------------------------------------------------------
(* The inductive invariant.                                                 *)

LEMMA InitIInv == Init => IInv
<1> SUFFICES ASSUME Init PROVE IInv
  OBVIOUS
<1>1. TypeOK
  BY FreshRecord, QueueAssumption
  DEF Init, TypeOK, Transport, NoSnap, RemoteAttempts
<1> QED
  BY <1>1 DEF Init, IInv, SeenToWork, ListedIsComplete, InStatus, ApprovalsEarned

\* Every record update writes one server's record, as sound as RecordWritten asks.
LEMMA Writes ==
  ASSUME IInv, NEW s \in Server,
         Discover(s) \/ SweepReset(s) \/ RecheckReset(s) \/ RecheckRequeue(s)
           \/ ApproveWrite(s) \/ Reject(s) \/ UserTest(s) \/ Age(s) \/ Expire(s)
  PROVE  SoundStep
<1> USE DEF IInv
<1>1. CASE Discover(s)
  <2>1. PICK t \in Transport : rec' = [rec EXCEPT ![s] = Fresh(t)]
    BY <1>1 DEF Discover
  <2>2. Entitled(Fresh(t), s \in proven')
    BY FreshRecord, Zenon DEF Entitled
  <2> QED
    BY <1>1, <2>1, <2>2, FreshRecord, RecordWritten DEF Discover
<1>2. CASE SweepReset(s)
  <2>1. s \in known
    BY <1>2 DEF SweepReset, TypeOK
  <2> QED
    BY <1>2, <2>1, SoundRecords, AttemptsReset, RecordWritten DEF SweepReset
<1>3. CASE RecheckReset(s)
  BY <1>3, SoundRecords, AttemptsReset, RecordWritten DEF RecheckReset
<1>4. CASE RecheckRequeue(s)
  <2>1. s \in known
    BY <1>4 DEF RecheckRequeue, TypeOK
  <2>2. "pending" \in Status \ {"verified"}
    BY DEF Status
  <2> QED
    BY <1>4, <2>1, <2>2, SoundRecords, StatusWritten, RecordWritten DEF RecheckRequeue
<1>5. CASE ApproveWrite(s)
  <2>1. s \in known /\ s \in proven'
    BY <1>5 DEF ApproveWrite, TypeOK, ApprovalsEarned
  <2> DEFINE q == [rec[s] EXCEPT !.status = "verified", !.badge = TRUE,
                                 !.via = "manual_review", !.ttl = "live"]
  <2>2. q \in Record /\ Complete(q)
    BY <2>1, SoundRecords, RecordApproved, Zenon
  <2>3. rec' = [rec EXCEPT ![s] = q] /\ UNCHANGED <<known, proven>>
    BY <1>5 DEF ApproveWrite
  <2>4. Entitled(q, s \in proven')
    BY <2>1 DEF Entitled
  <2> HIDE DEF q
  <2> QED
    BY <2>1, <2>2, <2>3, <2>4, RecordWritten
<1>6. CASE Reject(s)
  <2>1. "rejected" \in Status \ {"verified"}
    BY DEF Status
  <2> QED
    BY <1>6, <2>1, SoundRecords, StatusWritten, RecordWritten DEF Reject
<1>7. CASE UserTest(s)
  <2>1. PICK t \in Transport : rec' = [rec EXCEPT ![s] = UserTested(rec[s], t)]
    BY <1>7 DEF UserTest
  <2>2. rec[s] \in Record /\ s \in proven' /\ proven \subseteq proven'
    BY <1>7 DEF UserTest, TypeOK
  <2> QED
    BY <1>7, <2>1, <2>2, RecordUserTested, RecordWritten DEF UserTest, Entitled
<1>8. CASE Age(s)
  <2>1. s \in known /\ rec[s].since + 1 \in 0..2
    BY <1>8, SoundRecords DEF Age, InStatus, Record
  <2> QED
    BY <1>8, <2>1, SoundRecords, RecordAged, RecordWritten DEF Age
<1>9. CASE Expire(s)
  BY <1>9, SoundRecords, RecordExpired, RecordWritten, ZenonT(30) DEF Expire
<1> QED
  BY <1>1, <1>2, <1>3, <1>4, <1>5, <1>6, <1>7, <1>8, <1>9

\* The worker and the gate, too, write one sound record at a time.
LEMMA WorkerWrites ==
  ASSUME IInv,
         GateRefuses \/ GatePasses \/ PrefilterRefuses \/ Finalize \/ VerificationRaises
  PROVE  SoundStep
<1> USE DEF IInv
<1>1. {"pending", "rejected", "malformed"} \subseteq Status \ {"verified"}
  BY DEF Status
<1>2. /\ gating # NoServer => gating \in known
      /\ job # NoServer => job \in known
      /\ known \subseteq Server /\ NoServer \notin Server
  BY QueueAssumption DEF TypeOK
<1>3. CASE GateRefuses
  <2>1. gating \in known
    BY <1>2, <1>3, QueueAssumption DEF GateRefuses
  <2>2. PICK st \in {"rejected", "malformed"} : rec' = [rec EXCEPT ![gating].status = st]
    BY <1>3 DEF GateRefuses
  <2> DEFINE q == [rec[gating] EXCEPT !.status = st]
  <2>3. q \in Record /\ Entitled(q, gating \in proven) /\ Complete(q)
    BY <1>1, <2>1, <2>2, SoundRecords, StatusWritten
  <2>4. rec' = [rec EXCEPT ![gating] = q] /\ UNCHANGED <<known, proven>>
    BY <1>3, <2>2 DEF GateRefuses
  <2> HIDE DEF q
  <2> QED
    BY <1>2, <2>1, <2>3, <2>4, RecordWritten
<1>4. CASE GatePasses
  <2>1. gating \in known
    BY <1>2, <1>4 DEF GatePasses
  <2> DEFINE q == [rec[gating] EXCEPT !.status = "pending"]
  <2>2. q \in Record /\ Entitled(q, gating \in proven) /\ Complete(q)
    BY <1>1, <2>1, SoundRecords, StatusWritten
  <2>3. rec' = [rec EXCEPT ![gating] = q] /\ UNCHANGED <<known, proven>>
    BY <1>4 DEF GatePasses
  <2> HIDE DEF q
  <2> QED
    BY <1>2, <2>1, <2>2, <2>3, RecordWritten
<1>5. CASE PrefilterRefuses
  <2>1. job \in known
    BY <1>2, <1>5, QueueAssumption DEF PrefilterRefuses
  <2>2. PICK st \in {"rejected", "malformed"} : rec' = [rec EXCEPT ![job].status = st]
    BY <1>5 DEF PrefilterRefuses
  <2> DEFINE q == [rec[job] EXCEPT !.status = st]
  <2>3. q \in Record /\ Entitled(q, job \in proven) /\ Complete(q)
    BY <1>1, <2>1, <2>2, SoundRecords, StatusWritten
  <2>4. rec' = [rec EXCEPT ![job] = q] /\ UNCHANGED <<known, proven>>
    BY <1>5, <2>2 DEF PrefilterRefuses
  <2> HIDE DEF q
  <2> QED
    BY <1>2, <2>1, <2>3, <2>4, RecordWritten
<1>6. CASE Finalize
  <2>1. job \in known
    BY <1>2, <1>6 DEF Finalize
  <2>2. PICK run \in LocalRuns \cup RemoteRuns :
          /\ rec' = [rec EXCEPT ![job] = Finalized(rec[job], run)]
          /\ proven' = IF Succeeded(run) THEN proven \cup {job} ELSE proven
    BY <1>6 DEF Finalize
  <2>3. proven \subseteq proven' /\ (Succeeded(run) => job \in proven')
    BY <2>2
  <2>4. rec[job] \in Record /\ Entitled(rec[job], job \in proven')
    BY <2>1, <2>3, SoundRecords DEF Entitled
  <2>5. /\ Finalized(rec[job], run) \in Record
        /\ Entitled(Finalized(rec[job], run), job \in proven')
        /\ Complete(Finalized(rec[job], run))
    BY <2>3, <2>4, FinalizedRecord
  <2>6. UNCHANGED known
    BY <1>6 DEF Finalize
  <2> QED
    BY <1>2, <2>1, <2>2, <2>3, <2>5, <2>6, RecordWritten
<1>7. CASE VerificationRaises
  <2>1. job \in known
    BY <1>7 DEF VerificationRaises, TypeOK
  <2> DEFINE q == [rec[job] EXCEPT !.status = "retry_pending", !.since = 0]
  <2>2. q \in Record /\ Entitled(q, job \in proven) /\ Complete(q)
    BY <2>1, SoundRecords, RecordParked, Zenon
  <2>3. rec' = [rec EXCEPT ![job] = q] /\ UNCHANGED <<known, proven>>
    BY <1>7 DEF VerificationRaises
  <2> HIDE DEF q
  <2> QED
    BY <1>2, <2>1, <2>2, <2>3, RecordWritten
<1> QED
  BY <1>3, <1>4, <1>5, <1>6, <1>7

\* The types that no record update touches.
LEMMA TypesKept ==
  ASSUME IInv, Next, rec' \in [Server -> Record]
  PROVE  TypeOK'
<1> USE DEF IInv
<1>1. TypeOK /\ QueueAssumption
  BY QueueAssumption
<1>2. CASE PollQueue \/ PollExpired \/ PollReview
  <2>1. Queued \subseteq known /\ Expired \subseteq known /\ Unfinished \subseteq known
    BY DEF Queued, Expired, Unfinished, Page, InStatus
  <2>2. PICK S \in SUBSET known, here \in {"queue", "expired", "review"},
             otherwise \in {"expired", "review", "queue"} :
          Poll(here, S, otherwise)
    BY <1>2, <2>1 DEF PollQueue, PollExpired, PollReview
  <2>3. CASE S = {} /\ pc' = otherwise /\ UNCHANGED <<job, snap>>
    BY <1>1, <2>2, <2>3 DEF TypeOK, Poll, handlers
  <2>4. CASE \E s \in S : First(s, S) /\ Take(s)
    <3>1. PICK s \in S : Take(s)
      BY <2>4
    <3>2. s \in Server /\ s # NoServer /\ rec[s] \in Record
      BY <1>1, <3>1 DEF TypeOK
    <3> QED
      BY <1>1, <2>2, <3>1, <3>2 DEF TypeOK, Poll, Take, Record, handlers
  <2> QED
    BY <2>2, <2>3, <2>4 DEF Poll
<1>3. CASE PrefilterRefuses
  BY <1>1, <1>3 DEF TypeOK, PrefilterRefuses, Release, NoSnap, RemoteAttempts, handlers
<1>4. CASE Finalize
  <2>1. job \in known /\ job # NoServer
    BY <1>1, <1>4 DEF TypeOK, Finalize
  <2>2. proven' \subseteq known
    BY <1>1, <1>4, <2>1 DEF TypeOK, Finalize
  <2> QED
    BY <1>1, <1>4, <2>1, <2>2 DEF TypeOK, Finalize, handlers
<1>5. CASE RecordDecision \/ VerificationRaises \/ IterationFails
  <2>1. CASE RecordDecision
    BY <1>1, <2>1 DEF TypeOK, RecordDecision, Release, NoSnap, RemoteAttempts, handlers
  <2>2. CASE VerificationRaises
    BY <1>1, <2>2 DEF TypeOK, VerificationRaises, Release, NoSnap, RemoteAttempts, Fault, handlers
  <2>3. CASE IterationFails
    BY <1>1, <2>3 DEF TypeOK, IterationFails, Release, NoSnap, RemoteAttempts, Fault, handlers
  <2> QED
    BY <1>5, <2>1, <2>2, <2>3
<1>6. CASE HandlerFails
  BY <1>1, <1>6 DEF TypeOK, HandlerFails, Fault, worker
<1>7. CASE Restart
  BY <1>1, <1>7 DEF TypeOK, Restart, Release, NoSnap, RemoteAttempts, Fault
<1>8. CASE GateRefuses \/ GatePasses
  BY <1>1, <1>8 DEF TypeOK, GateRefuses, GatePasses, worker
<1>9. CASE SweepStart
  <2>1. Expired \subseteq known
    BY DEF Expired, InStatus
  <2> QED
    BY <1>1, <1>9, <2>1 DEF TypeOK, SweepStart, worker
<1>10. CASE \E s \in Server : Discover(s)
  BY <1>1, <1>10 DEF TypeOK, Discover, worker
<1>11. CASE \E s \in Server : SweepReset(s) \/ RecheckRequeue(s) \/ ApproveWrite(s) \/ Age(s)
  BY <1>1, <1>11
  DEF TypeOK, SweepReset, RecheckRequeue, ApproveWrite, Age, worker, handlers
<1>12. CASE \E s \in Server : RecheckReset(s) \/ ApproveCheck(s) \/ Reject(s)
  BY <1>1, <1>12
  DEF TypeOK, RecheckReset, ApproveCheck, Reject, Request, worker, handlers
<1>13. CASE \E s \in Server : UserTest(s)
  BY <1>1, <1>13 DEF TypeOK, UserTest, Request, worker, handlers
<1>14. CASE \E s \in Server : Expire(s)
  BY <1>1, <1>14 DEF TypeOK, Expire, Expiry, worker, handlers
<1> QED
  BY <1>2, <1>3, <1>4, <1>5, <1>6, <1>7, <1>8, <1>9, <1>10, <1>11, <1>12, <1>13, <1>14
  DEF Next, Work

\* Approvals in flight stay earned: only ApproveCheck adds one, and what it
\* reads (an invocation that succeeded) is what SeenToWork speaks of.
LEMMA ApprovalsStayEarned == IInv /\ Next => ApprovalsEarned'
<1> SUFFICES ASSUME IInv, Next PROVE ApprovalsEarned'
  OBVIOUS
<1> USE DEF IInv, ApprovalsEarned
<1>1. CASE Work
  BY <1>1
  DEF Work, PollQueue, PollExpired, PollReview, Poll, PrefilterRefuses, Finalize,
      RecordDecision, handlers
<1>2. CASE VerificationRaises \/ IterationFails \/ HandlerFails \/ Restart
  BY <1>2 DEF VerificationRaises, IterationFails, HandlerFails, Restart, handlers
<1>3. CASE GateRefuses \/ GatePasses \/ SweepStart
  BY <1>3 DEF GateRefuses, GatePasses, SweepStart
<1>4. ASSUME NEW s \in Server,
             Discover(s) \/ SweepReset(s) \/ RecheckReset(s) \/ RecheckRequeue(s)
               \/ ApproveWrite(s) \/ Reject(s) \/ UserTest(s) \/ Age(s) \/ Expire(s)
      PROVE  ApprovalsEarned'
  BY <1>4
  DEF Discover, SweepReset, RecheckReset, RecheckRequeue, ApproveWrite, Reject, UserTest,
      Age, Expire, handlers
<1>5. ASSUME NEW s \in Server, ApproveCheck(s) PROVE ApprovalsEarned'
  <2>1. s \in known /\ rec[s].invoked
    BY <1>5 DEF ApproveCheck, Approvable
  <2>2. s \in proven
    BY <2>1 DEF SeenToWork
  <2> QED
    BY <1>5, <2>2 DEF ApproveCheck
<1> QED
  BY <1>1, <1>2, <1>3, <1>4, <1>5 DEF Next

\* Every step, a stutter included, is sound.
LEMMA StepsAreSound == IInv /\ [Next]_vars => SoundStep
<1> SUFFICES ASSUME IInv, [Next]_vars PROVE SoundStep
  OBVIOUS
<1>1. CASE \/ PollQueue \/ PollExpired \/ PollReview \/ RecordDecision \/ IterationFails
           \/ HandlerFails \/ Restart \/ SweepStart \/ (\E s \in Server : ApproveCheck(s))
           \/ UNCHANGED vars
  <2>1. UNCHANGED <<known, rec, proven>>
    BY <1>1
    DEF PollQueue, PollExpired, PollReview, Poll, RecordDecision, IterationFails,
        HandlerFails, Restart, SweepStart, ApproveCheck, vars
  <2> QED
    BY <2>1, RegistryUntouched DEF IInv
<1>2. CASE GateRefuses \/ GatePasses \/ PrefilterRefuses \/ Finalize \/ VerificationRaises
  BY <1>2, WorkerWrites
<1>3. ASSUME NEW s \in Server,
             Discover(s) \/ SweepReset(s) \/ RecheckReset(s) \/ RecheckRequeue(s)
               \/ ApproveWrite(s) \/ Reject(s) \/ UserTest(s) \/ Age(s) \/ Expire(s)
      PROVE  SoundStep
  BY <1>3, Writes
<1> QED
  BY <1>1, <1>2, <1>3 DEF Next, Work

\* The invariant is inductive.
LEMMA NextIInv == IInv /\ [Next]_vars => IInv'
<1> SUFFICES ASSUME IInv, [Next]_vars PROVE IInv'
  OBVIOUS
<1>1. CASE Next
  BY <1>1, StepsAreSound, TypesKept, ApprovalsStayEarned DEF IInv, SoundStep
<1>2. CASE UNCHANGED vars
  BY <1>2
  DEF vars, IInv, TypeOK, SeenToWork, ListedIsComplete, InStatus, ApprovalsEarned
<1> QED
  BY <1>1, <1>2

\* The registry, its worker and its handlers keep the invariant for ever.
THEOREM Invariance == Spec => []IInv
BY InitIInv, NextIInv, PTL DEF Spec

-----------------------------------------------------------------------------
(* The promises.                                                            *)

\* Every variable keeps its type: no interleaving of the worker's read, run and
\* write with resets by others pushes an attempt counter past its plan, and the
\* worker never holds a server without a record.
THEOREM TypeCorrect == Spec => []TypeOK
BY Invariance, PTL DEF IInv

\* Rule 8 for the whole service: whatever is listed, badged or claims a
\* verified invocation has been seen to work (api.py, verifiers.py, bridge.py).
THEOREM ListingsAreEarned == Spec => []SeenToWork
BY Invariance, PTL DEF IInv

\* No interleaving leaves a listed record half written.
THEOREM ListingsAreComplete == Spec => []ListedIsComplete
BY Invariance, PTL DEF IInv

\* Only the last planned attempt settles a server (scoring.py, _finalize), even
\* if its counter is reset while the attempt runs.
THEOREM DecisionsWaitForAttempts == Spec => DecisiveOnlyWhenDone
<1> DEFINE Settles(s) ==
      pc = "verify" /\ job = s /\ pc' = "decide" /\ rec'[s].status \in {"verified", "rejected"}
        => rec'[s].attempts = rec'[s].planned
<1>1. ASSUME IInv, [Next]_vars PROVE [\A s \in Server : Settles(s)]_vars
  <2> SUFFICES ASSUME NEW s \in Server, Next, pc = "verify", job = s, pc' = "decide",
                      rec'[s].status \in {"verified", "rejected"}
               PROVE  rec'[s].attempts = rec'[s].planned
    BY <1>1
  <2>1. Finalize
    BY DEF Next, Work, PollQueue, PollExpired, PollReview, Poll, PrefilterRefuses, RecordDecision,
           VerificationRaises, IterationFails, HandlerFails, Restart, GateRefuses, GatePasses,
           SweepStart, Discover, SweepReset, RecheckReset, RecheckRequeue, ApproveCheck,
           ApproveWrite, Reject, UserTest, Age, Expire, Release, worker
  <2>2. TypeOK /\ rec[s] \in Record /\ rec \in [Server -> Record]
    BY <1>1 DEF IInv, TypeOK
  <2>3. PICK run : rec' = [rec EXCEPT ![s] = Finalized(rec[s], run)]
    BY <2>1 DEF Finalize
  <2> DEFINE completed == Completed(rec[s])
             planned   == Planned(rec[s])
  <2>4. /\ rec'[s].status = Verdict(run, completed, planned)
        /\ rec'[s].attempts = completed /\ rec'[s].planned = planned
    BY <2>2, <2>3 DEF Finalized
  <2>5. planned \in 1..RemoteAttempts /\ completed \in 1..planned
    BY <2>2, CompletedRange
  <2> HIDE DEF completed, planned
  <2> QED
    BY <2>4, <2>5, DecisiveNeedsAllAttempts
<1> QED
  BY <1>1, Invariance, PTL DEF Spec, DecisiveOnlyWhenDone

\* The detailed registry implements ProvenListing: what the default search
\* returns only ever grows by servers that have been seen to work before, or by
\* the very step that saw one work.
THEOREM RegistryImplementsListing == Spec => ImplementsListing
<1>1. Init => Listing!Init
  BY DEF Init, Listing!Init, InStatus
<1>2. IInv /\ [Next]_vars => [Listing!Next]_<<InStatus({"verified"}), proven>>
  BY StepsAreSound DEF SoundStep
<1> QED
  BY <1>1, <1>2, Invariance, PTL DEF Spec, ImplementsListing, Listing!Spec

-----------------------------------------------------------------------------
(* What becomes of a review that stands behind enough finished ones.        *)

\* In the review bucket, and nobody is about to write to its record.
Resting(s) ==
  /\ s \in InStatus({"review"})
  /\ s # job /\ s # gating /\ s \notin sweeping \cup rechecking \cup approving

\* It comes after the reviews in W, which have had all their attempts.
Hidden(s, W) ==
  /\ Resting(s)
  /\ \A t \in W : Resting(t) /\ rec[t].attempts = rec[t].planned /\ Rank[t] < Rank[s]

\* The registry grows one record at a time.
LEMMA KnownIsFinite == Spec => []IsFiniteSet(known)
<1>1. Init => IsFiniteSet(known)
  BY FS_EmptySet DEF Init
<1>2. IsFiniteSet(known) /\ [Next]_vars => IsFiniteSet(known)'
  <2> SUFFICES ASSUME IsFiniteSet(known), [Next]_vars PROVE IsFiniteSet(known)'
    OBVIOUS
  <2>1. known' = known \/ \E s \in Server : known' = known \cup {s}
    BY DEF Next, vars, Work, PollQueue, PollExpired, PollReview, Poll, PrefilterRefuses, Finalize,
           RecordDecision, VerificationRaises, IterationFails, HandlerFails, Restart, GateRefuses,
           GatePasses, SweepStart, Discover, SweepReset, RecheckReset, RecheckRequeue,
           ApproveCheck, ApproveWrite, Reject, UserTest, Age, Expire
  <2>2. QED
    BY <2>1, FS_AddElement
<1>3. QED
  BY <1>1, <1>2, PTL DEF Spec

\* A page filled by finished reviews has no room for one behind them.
LEMMA PageIsFull ==
  ASSUME TypeOK, IsFiniteSet(known), NEW W \in SUBSET Server, Cardinality(W) >= ReviewLimit,
         NEW s \in Server, Hidden(s, W)
  PROVE  s \notin Unfinished
<1> DEFINE before == {t \in InStatus({"review"}) : Rank[t] < Rank[s]}
<1>1. IsFiniteSet(before) /\ W \in SUBSET before
  <2>1. before \in SUBSET known
    BY DEF InStatus
  <2>2. W \in SUBSET before
    BY DEF Hidden, Resting
  <2>3. QED
    BY <2>1, <2>2, FS_Subset
<1>2. Cardinality(before) \in Nat /\ Cardinality(W) \in Nat /\ Cardinality(W) <= Cardinality(before)
  BY <1>1, FS_Subset, FS_CardinalityType
<1>3. ~(Cardinality(before) < ReviewLimit)
  BY <1>2, QueueAssumption
<1>4. QED
  BY <1>3 DEF Unfinished, Page

\* Only requests reach a resting record the worker does not retry.
LEMMA RestIsKept ==
  ASSUME TypeOK, Next, UNCHANGED spent.requests, NEW x \in Server, Resting(x), x \notin Unfinished
  PROVE  Resting(x)' /\ rec'[x].attempts = rec[x].attempts /\ rec'[x].planned = rec[x].planned
<1> DEFINE Kept == Resting(x)' /\ rec'[x].attempts = rec[x].attempts /\ rec'[x].planned = rec[x].planned
<1>1. /\ x \in known /\ rec[x].status = "review" /\ x # job /\ x # gating
      /\ x \notin sweeping /\ x \notin rechecking /\ x \notin approving /\ x # NoServer
      /\ rec \in [Server -> Record] /\ job \in known \cup {NoServer}
      /\ spent \in [requests : 0..MaxRequests, faults : 0..MaxFaults, expiries : 0..MaxExpiries]
  BY QueueAssumption DEF Resting, InStatus, TypeOK
<1>2. CASE PollQueue \/ PollExpired \/ PollReview
  <2>1. x \notin Queued /\ x \notin Expired
    BY <1>1 DEF Queued, Expired, Page, InStatus
  <2>2. job' # x /\ UNCHANGED <<known, rec, handlers>>
    BY <1>1, <1>2, <2>1 DEF PollQueue, PollExpired, PollReview, Poll, Take
  <2>3. QED
    BY <1>1, <2>2 DEF Resting, InStatus, handlers
<1>3. CASE PrefilterRefuses \/ Finalize \/ VerificationRaises
  <2>1. rec'[x] = rec[x] /\ job' # x /\ UNCHANGED <<known, handlers>>
    BY <1>1, <1>3 DEF PrefilterRefuses, Finalize, VerificationRaises, Release, TypeOK
  <2>2. QED
    BY <1>1, <2>1 DEF Resting, InStatus, handlers
<1>4. CASE RecordDecision \/ IterationFails
  BY <1>1, <1>4 DEF RecordDecision, IterationFails, Release, Resting, InStatus, handlers
<1>5. CASE HandlerFails
  BY <1>1, <1>5 DEF HandlerFails, Resting, InStatus, worker
<1>6. CASE Restart
  BY <1>1, <1>6 DEF Restart, Release, Resting, InStatus
<1>7. CASE GateRefuses \/ GatePasses
  <2>1. rec'[x] = rec[x] /\ gating' # x /\ UNCHANGED <<known, worker, sweeping, rechecking, approving>>
    BY <1>1, <1>7 DEF GateRefuses, GatePasses
  <2>2. QED
    BY <1>1, <2>1 DEF Resting, InStatus, worker
<1>8. CASE SweepStart
  BY <1>1, <1>8 DEF SweepStart, Expired, Resting, InStatus, worker
<1>9. ASSUME NEW s \in Server, Discover(s) \/ SweepReset(s) \/ RecheckRequeue(s) \/ ApproveWrite(s)
      PROVE  Kept
  <2>1. s # x
    BY <1>1, <1>9 DEF Discover, SweepReset, RecheckRequeue, ApproveWrite
  <2>2. rec'[x] = rec[x] /\ x \in known'
    BY <1>1, <1>9, <2>1 DEF Discover, SweepReset, RecheckRequeue, ApproveWrite
  <2>3. /\ job' = job /\ gating' # x
        /\ sweeping' \subseteq sweeping /\ rechecking' \subseteq rechecking /\ approving' \subseteq approving
    BY <1>1, <1>9, <2>1 DEF Discover, SweepReset, RecheckRequeue, ApproveWrite, worker
  <2>4. QED
    BY <1>1, <2>2, <2>3 DEF Resting, InStatus
<1>10. ASSUME NEW s \in Server, Age(s) \/ Expire(s) PROVE Kept
  <2>1. /\ rec'[x].status = rec[x].status /\ rec'[x].attempts = rec[x].attempts
        /\ rec'[x].planned = rec[x].planned
    BY <1>1, <1>10 DEF Age, Expire, Record
  <2>2. UNCHANGED <<known, worker, handlers>>
    BY <1>10 DEF Age, Expire
  <2>3. QED
    BY <1>1, <2>1, <2>2 DEF Resting, InStatus, worker, handlers
<1>11. ASSUME NEW s \in Server, RecheckReset(s) \/ ApproveCheck(s) \/ Reject(s) \/ UserTest(s)
       PROVE  Kept
  <2>1. spent'.requests = spent.requests + 1 /\ spent.requests \in Nat
    BY <1>1, <1>11, QueueAssumption DEF RecheckReset, ApproveCheck, Reject, UserTest, Request
  <2>2. QED
    BY <2>1
<1>12. QED
  BY <1>2, <1>3, <1>4, <1>5, <1>6, <1>7, <1>8, <1>9, <1>10, <1>11 DEF Next, Work

\* The review poll reads one page and then drops those without attempts left
\* (queue.py, list_review_pending): once a page of finished reviews stands before
\* an unfinished one, the worker never takes that one up again, whatever runs,
\* failures, sweeps and restarts follow.  Only a request changes that.
THEOREM HiddenReviewsStay ==
  Spec => [][\A W \in SUBSET Server, s \in Server :
               Cardinality(W) >= ReviewLimit /\ Hidden(s, W)
                 => Hidden(s, W)' \/ spent'.requests # spent.requests]_vars
<1> DEFINE Stays(s, W) == Cardinality(W) >= ReviewLimit /\ Hidden(s, W)
                            => Hidden(s, W)' \/ spent'.requests # spent.requests
<1>1. ASSUME TypeOK, IsFiniteSet(known), Next, NEW W \in SUBSET Server, NEW s \in Server
      PROVE  Stays(s, W)
  <2> SUFFICES ASSUME Cardinality(W) >= ReviewLimit, Hidden(s, W), UNCHANGED spent.requests
               PROVE  Hidden(s, W)'
    OBVIOUS
  <2>1. Resting(s)'
    BY <1>1, PageIsFull, RestIsKept DEF Hidden
  <2>2. ASSUME NEW t \in W PROVE Resting(t)' /\ rec'[t].attempts = rec'[t].planned
    <3>1. t \in Server /\ Resting(t) /\ rec[t].attempts = rec[t].planned /\ rec[t].attempts \in Nat
      BY <1>1 DEF Hidden, TypeOK, Record
    <3>2. t \notin Unfinished
      BY <3>1 DEF Unfinished
    <3>3. QED
      BY <1>1, <3>1, <3>2, RestIsKept
  <2>3. QED
    BY <2>1, <2>2 DEF Hidden
<1>2. TypeOK /\ IsFiniteSet(known) /\ [Next]_vars
        => [\A W \in SUBSET Server, s \in Server : Stays(s, W)]_vars
  BY <1>1
<1>3. QED
  BY <1>2, TypeCorrect, KnownIsFinite, PTL DEF Spec

-----------------------------------------------------------------------------
(* How a record leaves the queue.                                           *)

\* A queued record leaves the queue with the verdict or the prefilter's refusal of
\* the worker that has it in hand, with the refusal of the gate that looks at it,
\* with an approval that was checked before it was queued again, or with a request:
\* no exception, sweep, restart or run of another server loses it.
THEOREM QueuedAreKept ==
  Spec => [][\A s \in Server :
               s \in InStatus({"pending", "retry_pending"}) \ InStatus({"pending", "retry_pending"})'
                 => \/ pc = "verify" /\ job = s
                    \/ gating = s \/ s \in approving
                    \/ spent'.requests # spent.requests]_vars
<1> DEFINE queued == InStatus({"pending", "retry_pending"})
           Dealt(s) == \/ pc = "verify" /\ job = s
                       \/ gating = s \/ s \in approving
                       \/ spent'.requests # spent.requests
<1>1. ASSUME TypeOK, Next, NEW x \in queued, x \in Server, ~Dealt(x) PROVE x \in queued'
  <2>1. /\ x \in known /\ rec[x].status \in {"pending", "retry_pending"}
        /\ rec \in [Server -> Record] /\ spent.requests \in Nat
        /\ spent \in [requests : 0..MaxRequests, faults : 0..MaxFaults, expiries : 0..MaxExpiries]
    BY <1>1, QueueAssumption DEF InStatus, TypeOK
  <2>2. SUFFICES x \in known' /\ rec'[x].status \in {"pending", "retry_pending"}
    BY DEF InStatus
  <2>3. CASE \/ PollQueue \/ PollExpired \/ PollReview \/ RecordDecision \/ IterationFails
             \/ HandlerFails \/ Restart \/ SweepStart
    BY <2>1, <2>3 DEF PollQueue, PollExpired, PollReview, Poll, RecordDecision, IterationFails,
                      HandlerFails, Restart, SweepStart
  <2>4. CASE PrefilterRefuses \/ Finalize
    BY <1>1, <2>1, <2>4 DEF PrefilterRefuses, Finalize, TypeOK
  <2>5. CASE VerificationRaises
    <3>1. job \in Server /\ rec[job] \in Record /\ UNCHANGED known
      BY <1>1, <2>5 DEF VerificationRaises, TypeOK
    <3>2. rec' = [rec EXCEPT ![job] = [rec[job] EXCEPT !.status = "retry_pending", !.since = 0]]
      BY <2>1, <2>5, <3>1 DEF VerificationRaises
    <3>3. rec'[job].status = "retry_pending"
      BY <2>1, <3>1, <3>2 DEF Record
    <3>4. QED
      BY <1>1, <2>1, <3>1, <3>2, <3>3
  <2>6. CASE GateRefuses \/ GatePasses
    BY <1>1, <2>1, <2>6 DEF GateRefuses, GatePasses
  <2>7. ASSUME NEW s \in Server,
               \/ Discover(s) \/ SweepReset(s) \/ RecheckRequeue(s) \/ Age(s) \/ Expire(s)
        PROVE  x \in known' /\ rec'[x].status \in {"pending", "retry_pending"}
    <3>1. rec[s] \in Record
      BY <2>1
    <3>2. CASE Discover(s)
      BY <1>1, <2>1, <3>2 DEF Discover
    <3>3. CASE SweepReset(s)
      BY <1>1, <2>1, <3>1, <3>3 DEF SweepReset, Record
    <3>4. CASE RecheckRequeue(s)
      BY <1>1, <2>1, <3>1, <3>4 DEF RecheckRequeue, Record
    <3>5. CASE Age(s)
      BY <1>1, <2>1, <3>1, <3>5 DEF Age, Record
    <3>6. CASE Expire(s)
      BY <1>1, <2>1, <3>1, <3>6 DEF Expire, Record
    <3>7. QED
      BY <2>7, <3>2, <3>3, <3>4, <3>5, <3>6
  <2>8. ASSUME NEW s \in Server, ApproveWrite(s)
        PROVE  x \in known' /\ rec'[x].status \in {"pending", "retry_pending"}
    BY <1>1, <2>1, <2>8 DEF ApproveWrite
  <2>9. ASSUME NEW s \in Server, RecheckReset(s) \/ ApproveCheck(s) \/ Reject(s) \/ UserTest(s)
        PROVE  FALSE
    <3>1. spent'.requests = spent.requests + 1
      BY <2>1, <2>9 DEF RecheckReset, ApproveCheck, Reject, UserTest, Request
    <3>2. QED
      BY <1>1, <2>1, <3>1
  <2>10. QED
    BY <1>1, <2>3, <2>4, <2>5, <2>6, <2>7, <2>8, <2>9 DEF Next, Work
<1>2. TypeOK /\ [Next]_vars => [\A s \in Server : s \in queued \ queued' => Dealt(s)]_vars
  BY <1>1 DEF InStatus
<1>3. QED
  BY <1>2, TypeCorrect, PTL DEF Spec
=============================================================================
