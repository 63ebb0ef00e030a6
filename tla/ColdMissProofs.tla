--------------------------- MODULE ColdMissProofs ---------------------------
(***************************************************************************)
(* Proofs about ColdMiss, for any sets of terms and searches, any page     *)
(* limit and any number of faults.  DoneStandsOnAnswers needs to know what *)
(* the loop has learned at each of its steps (Learned) and that nobody     *)
(* closes a term the loop has in hand (Open); GithubIsFallback needs to    *)
(* know where a term the registry had servers for can be (HitsAreHandled). *)
(***************************************************************************)
EXTENDS ColdMiss, TLAPS

Open ==
  /\ \A t \in batch : row[t].status # "done"
  /\ pc # "idle" => row[term].status # "done" /\ term \notin batch

Learned ==
  /\ \A t \in Term : row[t].registry_done => "registry" \in asked[t]
  /\ pc \in {"record_registry", "finish", "mark_github", "ask_github", "record_github"}
       => "registry" \in asked[term]
  /\ pc = "finish" => row[term].servers_found
  /\ pc = "record_github" => "github" \in asked[term]

HitsAreHandled ==
  /\ \A t \in hit :
       \/ t \in interrupted
       \/ row[t].status = "done"
       \/ term = t /\ pc \in {"record_registry", "finish"} /\ hits
  /\ pc \in {"mark_github", "ask_github"} => term \notin hit \/ term \in interrupted

IInv == TypeOK /\ DoneStandsOnAnswers /\ Open /\ Learned /\ HitsAreHandled

-----------------------------------------------------------------------------
(* What the bookkeeping helpers do to types.                                *)

LEMMA RequeuedTyped == ASSUME NEW r \in Row PROVE Requeued(r) \in Row
BY DEF Requeued, Row

LEMMA RecordedTyped ==
  ASSUME NEW r \in Row, NEW h \in BOOLEAN
  PROVE  /\ [r EXCEPT !.registry_done = TRUE, !.servers_found = h] \in Row
         /\ [r EXCEPT !.github_done = TRUE, !.servers_found = h, !.status = "done"] \in Row
BY Zenon DEF Row

LEMMA PendingTyped == Page(Pending) \subseteq Term /\ \A t \in Page(Pending) : row[t].status # "done"
BY DEF Page, Pending

LEMMA EndTermTyped ==
  EndTerm => /\ pc' = "idle" /\ term' = NoTerm
             /\ githubDone' \in BOOLEAN /\ hits' \in BOOLEAN
<1>1. EndTerm => githubDone' \in BOOLEAN /\ hits' \in BOOLEAN
  BY Zenon DEF EndTerm
<1>2. QED
  BY <1>1 DEF EndTerm

\* Every step keeps the types of the rows, the searches and the loop.
LEMMA TypeStep == TypeOK /\ [Next]_vars => TypeOK'
<1>1. SUFFICES ASSUME TypeOK, [Next]_vars PROVE TypeOK'
  OBVIOUS
<1> USE ColdMissAssumption DEF TypeOK
<1>2. CASE TakeBatch
  BY <1>1, <1>2, PendingTyped DEF TakeBatch, rows, ghosts
<1>3. ASSUME NEW t \in Term, TakeTerm(t) PROVE TypeOK'
  BY <1>1, <1>3 DEF TakeTerm, FirstStep, First, Row, Step, rows, ghosts
<1>4. CASE MarkRegistry
  BY <1>1, <1>4 DEF MarkRegistry, Goto, Row, Step, ghosts
<1>5. CASE AskRegistry
  BY <1>1, <1>5 DEF AskRegistry, Goto, Step, rows
<1>6. CASE RecordRegistry
  <2> DEFINE new == [row[term] EXCEPT !.registry_done = TRUE, !.servers_found = hits]
  <2>1. row' = [row EXCEPT ![term] = new]
    BY <1>6 DEF RecordRegistry
  <2>2. row' \in [Term -> Row]
    <3>1. row[term] \in Row /\ hits \in BOOLEAN
      BY <1>1, <1>6 DEF RecordRegistry
    <3>2. new \in Row
      BY <3>1, RecordedTyped, Zenon
    <3> HIDE DEF new
    <3>3. QED
      BY <1>1, <2>1, <3>2
  <2>3. QED
    BY <1>1, <1>6, <2>2, EndTermTyped DEF RecordRegistry, AfterRegistry, Goto, Step, ghosts
<1>7. CASE Finish
  BY <1>1, <1>7, EndTermTyped DEF Finish, Row, Step, ghosts
<1>8. CASE MarkGithub
  BY <1>1, <1>8 DEF MarkGithub, Goto, Row, Step, ghosts
<1>9. CASE AskGithub
  BY <1>1, <1>9 DEF AskGithub, Goto, Step, rows
<1>10. CASE RecordGithub
  <2> DEFINE new == [row[term] EXCEPT !.github_done = TRUE, !.servers_found = hits, !.status = "done"]
  <2>1. row' = [row EXCEPT ![term] = new]
    BY <1>10 DEF RecordGithub
  <2>2. row' \in [Term -> Row]
    <3>1. row[term] \in Row /\ hits \in BOOLEAN
      BY <1>1, <1>10 DEF RecordGithub
    <3>2. new \in Row
      BY <3>1, RecordedTyped, Zenon
    <3> HIDE DEF new
    <3>3. QED
      BY <1>1, <2>1, <3>2
  <2>3. QED
    BY <1>1, <1>10, <2>2, EndTermTyped DEF RecordGithub, Step, ghosts
<1>11. CASE TermFails
  BY <1>1, <1>11, EndTermTyped DEF TermFails, Fault, Step, rows
<1>12. CASE Restart
  BY <1>1, <1>12, EndTermTyped DEF Restart, Fault, Step
<1>13. ASSUME NEW q \in Search, NEW t \in Term, EnqueueRead(q, t) PROVE TypeOK'
  BY <1>1, <1>13 DEF EnqueueRead, Step, loop, ghosts
<1>14. ASSUME NEW q \in Search, EnqueueCreate(q) PROVE TypeOK'
  BY <1>1, <1>14, RequeuedTyped DEF EnqueueCreate, Step, loop, ghosts
<1>15. ASSUME NEW q \in Search, EnqueueReset(q) PROVE TypeOK'
  BY <1>1, <1>15, RequeuedTyped DEF EnqueueReset, Step, loop, ghosts
<1>16. CASE UNCHANGED vars
  BY <1>1, <1>16 DEF vars, rows, loop, ghosts
<1>17. QED
  BY <1>1, <1>2, <1>3, <1>4, <1>5, <1>6, <1>7, <1>8, <1>9, <1>10, <1>11, <1>12, <1>13,
     <1>14, <1>15, <1>16 DEF Next, Cascade

-----------------------------------------------------------------------------
(* The conjuncts of IInv, one lemma each.                                   *)

\* What a write of the loop or of a search leaves of a row's status.
LEMMA RequeuedFields ==
  ASSUME NEW r \in Row
  PROVE  /\ Requeued(r).status = "queued" /\ Requeued(r).registry_done = FALSE
         /\ Requeued(r).servers_found = r.servers_found
BY DEF Requeued, Row

\* Only the loop closes a term, and only the one it has in hand.
LEMMA OpenStep == TypeOK /\ Open /\ [Next]_vars => Open'
<1>1. SUFFICES ASSUME TypeOK, Open, [Next]_vars PROVE Open'
  OBVIOUS
<1> USE DEF TypeOK, Open
<1>2. CASE TakeBatch
  BY <1>1, <1>2, PendingTyped DEF TakeBatch, rows
<1>3. ASSUME NEW t \in Term, TakeTerm(t) PROVE Open'
  BY <1>1, <1>3 DEF TakeTerm, FirstStep, First, rows
<1>4. CASE MarkRegistry
  BY <1>1, <1>4 DEF MarkRegistry, Goto, Row
<1>5. CASE AskRegistry
  BY <1>1, <1>5 DEF AskRegistry, Goto, rows
<1>6. CASE RecordRegistry
  BY <1>1, <1>6 DEF RecordRegistry, EndTerm, Goto, Row
<1>7. CASE Finish
  BY <1>1, <1>7 DEF Finish, EndTerm, Row
<1>8. CASE MarkGithub
  BY <1>1, <1>8 DEF MarkGithub, Goto, Row
<1>9. CASE AskGithub
  BY <1>1, <1>9 DEF AskGithub, Goto, rows
<1>10. CASE RecordGithub
  BY <1>1, <1>10 DEF RecordGithub, EndTerm, Row
<1>11. CASE TermFails
  BY <1>1, <1>11 DEF TermFails, EndTerm, rows
<1>12. CASE Restart
  BY <1>1, <1>12 DEF Restart, EndTerm
<1>13. ASSUME NEW q \in Search, NEW t \in Term, EnqueueRead(q, t) PROVE Open'
  BY <1>1, <1>13 DEF EnqueueRead, loop
<1>14. ASSUME NEW q \in Search, EnqueueCreate(q) PROVE Open'
  BY <1>1, <1>14, RequeuedFields DEF EnqueueCreate, loop
<1>15. ASSUME NEW q \in Search, EnqueueReset(q) PROVE Open'
  BY <1>1, <1>15, RequeuedFields DEF EnqueueReset, loop
<1>16. CASE UNCHANGED vars
  BY <1>1, <1>16 DEF vars, rows, loop
<1>17. QED
  BY <1>1, <1>2, <1>3, <1>4, <1>5, <1>6, <1>7, <1>8, <1>9, <1>10, <1>11, <1>12, <1>13,
     <1>14, <1>15, <1>16 DEF Next, Cascade

\* The loop reaches the end of a term only with the answers it needs.
LEMMA LearnedStep ==
  TypeOK /\ Open /\ Learned /\ DoneStandsOnAnswers /\ [Next]_vars
    => Learned' /\ DoneStandsOnAnswers'
<1>1. SUFFICES ASSUME TypeOK, Open, Learned, DoneStandsOnAnswers, [Next]_vars
               PROVE  Learned' /\ DoneStandsOnAnswers'
  OBVIOUS
<1> USE DEF TypeOK, Open, Learned, DoneStandsOnAnswers
<1>2. CASE TakeBatch
  BY <1>1, <1>2 DEF TakeBatch, rows, ghosts
<1>3. ASSUME NEW t \in Term, TakeTerm(t) PROVE Learned' /\ DoneStandsOnAnswers'
  BY <1>1, <1>3 DEF TakeTerm, FirstStep, First, rows, ghosts
<1>4. CASE MarkRegistry
  BY <1>1, <1>4 DEF MarkRegistry, Goto, Row, ghosts
<1>5. CASE AskRegistry
  BY <1>1, <1>5 DEF AskRegistry, Goto, rows
<1>6. CASE RecordRegistry
  BY <1>1, <1>6 DEF RecordRegistry, AfterRegistry, EndTerm, Goto, Row, ghosts
<1>7. CASE Finish
  BY <1>1, <1>7 DEF Finish, EndTerm, Row, ghosts
<1>8. CASE MarkGithub
  BY <1>1, <1>8 DEF MarkGithub, Goto, Row, ghosts
<1>9. CASE AskGithub
  BY <1>1, <1>9 DEF AskGithub, Goto, rows
<1>10. CASE RecordGithub
  BY <1>1, <1>10 DEF RecordGithub, EndTerm, Row, ghosts
<1>11. CASE TermFails
  BY <1>1, <1>11 DEF TermFails, EndTerm, rows
<1>12. CASE Restart
  BY <1>1, <1>12 DEF Restart, EndTerm
<1>13. ASSUME NEW q \in Search, NEW t \in Term, EnqueueRead(q, t)
       PROVE  Learned' /\ DoneStandsOnAnswers'
  BY <1>1, <1>13 DEF EnqueueRead, loop, ghosts
<1>14. ASSUME NEW q \in Search, EnqueueCreate(q) PROVE Learned' /\ DoneStandsOnAnswers'
  BY <1>1, <1>14, RequeuedFields DEF EnqueueCreate, loop, ghosts
<1>15. ASSUME NEW q \in Search, EnqueueReset(q) PROVE Learned' /\ DoneStandsOnAnswers'
  BY <1>1, <1>15, RequeuedFields DEF EnqueueReset, loop
<1>16. CASE UNCHANGED vars
  BY <1>1, <1>16 DEF vars, rows, loop, ghosts
<1>17. QED
  BY <1>1, <1>2, <1>3, <1>4, <1>5, <1>6, <1>7, <1>8, <1>9, <1>10, <1>11, <1>12, <1>13,
     <1>14, <1>15, <1>16 DEF Next, Cascade

\* A term the registry had servers for is closed at once, unless its look-up
\* is cut short.
LEMMA HitsStep == TypeOK /\ Open /\ HitsAreHandled /\ [Next]_vars => HitsAreHandled'
<1>1. SUFFICES ASSUME TypeOK, Open, HitsAreHandled, [Next]_vars PROVE HitsAreHandled'
  OBVIOUS
<1> USE DEF TypeOK, Open, HitsAreHandled
<1>2. CASE TakeBatch
  BY <1>1, <1>2 DEF TakeBatch, rows, ghosts
<1>3. ASSUME NEW t \in Term, TakeTerm(t) PROVE HitsAreHandled'
  BY <1>1, <1>3 DEF TakeTerm, FirstStep, First, rows, ghosts
<1>4. CASE MarkRegistry
  BY <1>1, <1>4 DEF MarkRegistry, Goto, Row, ghosts
<1>5. CASE AskRegistry
  BY <1>1, <1>5 DEF AskRegistry, Goto, rows
<1>6. CASE RecordRegistry
  BY <1>1, <1>6 DEF RecordRegistry, AfterRegistry, EndTerm, Goto, Row, ghosts
<1>7. CASE Finish
  BY <1>1, <1>7 DEF Finish, EndTerm, Row, ghosts
<1>8. CASE MarkGithub
  BY <1>1, <1>8 DEF MarkGithub, Goto, Row, ghosts
<1>9. CASE AskGithub
  BY <1>1, <1>9 DEF AskGithub, Goto, rows
<1>10. CASE RecordGithub
  BY <1>1, <1>10 DEF RecordGithub, EndTerm, Row, ghosts
<1>11. CASE TermFails
  BY <1>1, <1>11 DEF TermFails, EndTerm, rows
<1>12. CASE Restart
  BY <1>1, <1>12, ColdMissAssumption DEF Restart, EndTerm
<1>13. ASSUME NEW q \in Search, NEW t \in Term, EnqueueRead(q, t) PROVE HitsAreHandled'
  BY <1>1, <1>13 DEF EnqueueRead, loop, ghosts
<1>14. ASSUME NEW q \in Search, EnqueueCreate(q) PROVE HitsAreHandled'
  BY <1>1, <1>14, RequeuedFields DEF EnqueueCreate, loop, ghosts
<1>15. ASSUME NEW q \in Search, EnqueueReset(q) PROVE HitsAreHandled'
  BY <1>1, <1>15, RequeuedFields DEF EnqueueReset, loop
<1>16. CASE UNCHANGED vars
  BY <1>1, <1>16 DEF vars, rows, loop, ghosts
<1>17. QED
  BY <1>1, <1>2, <1>3, <1>4, <1>5, <1>6, <1>7, <1>8, <1>9, <1>10, <1>11, <1>12, <1>13,
     <1>14, <1>15, <1>16 DEF Next, Cascade

-----------------------------------------------------------------------------
(* The theorems.                                                            *)

LEMMA Initially == Init => IInv
<1> USE ColdMissAssumption
<1>1. Init => TypeOK
  <2>1. Absent \in Row
    BY Zenon DEF Absent, Row
  <2>2. Init => githubDone \in BOOLEAN /\ hits \in BOOLEAN
    BY Zenon DEF Init
  <2>3. Idle \in [step : {"idle", "create", "reset", "answered"}, term : Term \cup {NoTerm}]
    BY DEF Idle
  <2>4. QED
    BY <2>1, <2>2, <2>3 DEF Init, TypeOK, Idle, Step
<1>2. Init => DoneStandsOnAnswers /\ Open /\ Learned /\ HitsAreHandled
  BY DEF Init, DoneStandsOnAnswers, Open, Learned, HitsAreHandled, Absent
<1>3. QED
  BY <1>1, <1>2 DEF IInv

\* The inductive invariant: the types, the answers behind every closed term,
\* and what the loop knows at each of its steps.
THEOREM Invariance == Spec => []IInv
<1>1. IInv /\ [Next]_vars => IInv'
  BY TypeStep, OpenStep, LearnedStep, HitsStep DEF IInv
<1>2. QED
  BY Initially, <1>1, PTL DEF Spec

\* Rows, searches and the loop keep to their types (ColdMissQuery rows and the
\* task states of queue.py).
THEOREM TypeCorrect == Spec => []TypeOK
<1>1. IInv => TypeOK
  BY DEF IInv
<1>2. QED
  BY Invariance, <1>1, PTL

\* run_cold_miss_cascade closes no term before the registry, and GitHub unless
\* servers were found, have been asked about it.
THEOREM ClosedOnAnswers == Spec => []DoneStandsOnAnswers
<1>1. IInv => DoneStandsOnAnswers
  BY DEF IInv
<1>2. QED
  BY Invariance, <1>1, PTL

\* Falling through to GitHub after the registry had servers takes an
\* interrupted look-up.
THEOREM GithubOnlyAsFallback == Spec => GithubIsFallback
<1> DEFINE A == \A t \in Term :
       pc = "ask_github" /\ term = t /\ pc' = "record_github" => t \notin hit \/ t \in interrupted
<1>1. IInv /\ [Next]_vars => [A]_vars
  BY DEF IInv, HitsAreHandled
<1>2. QED
  BY Invariance, <1>1, PTL DEF Spec, GithubIsFallback

-----------------------------------------------------------------------------
(* What becomes of a recorded term: the two halves of what a run refutes     *)
(* and another confirms, for every value of the constants.                   *)

\* Left in the GitHub step: neither in hand nor in the batch, and no search is about
\* to reset it.
Stranded(t) ==
  /\ row[t].status = "checking_github"
  /\ term # t /\ t \notin batch
  /\ \A q \in Search : search[q].step = "reset" => search[q].term # t

\* A step of the loop writes to the row it has in hand only.
LEMMA OthersKept ==
  ASSUME IInv, NEW t \in Term,
         MarkRegistry \/ AskRegistry \/ RecordRegistry \/ Finish \/ MarkGithub \/ AskGithub
           \/ RecordGithub,
         term # t
  PROVE  row'[t] = row[t] /\ search' = search /\ batch' = batch /\ term' # t
<1>1. row \in [Term -> Row] /\ NoTerm \notin Term
  BY ColdMissAssumption DEF IInv, TypeOK
<1>2. CASE MarkRegistry \/ AskRegistry \/ MarkGithub \/ AskGithub
  BY <1>1, <1>2 DEF MarkRegistry, AskRegistry, MarkGithub, AskGithub, Goto, rows
<1>3. CASE RecordRegistry \/ Finish \/ RecordGithub
  BY <1>1, <1>3 DEF RecordRegistry, Finish, RecordGithub, Goto, EndTerm
<1>4. QED
  BY <1>2, <1>3

\* list_pending selects the queued and those at the registry, and enqueue resets only
\* what is done: a term that an exception or a restart left in the GitHub step is
\* never looked up again, whatever searches and the loop do from then on.
THEOREM StrandedForever == Spec => [][\A t \in Term : Stranded(t) => Stranded(t)']_vars
<1>1. ASSUME IInv, [Next]_vars, NEW t \in Term, Stranded(t) PROVE Stranded(t)'
  <2>1. row \in [Term -> Row] /\ NoTerm \notin Term /\ batch \subseteq Term
        /\ search \in [Search -> [step : {"idle", "create", "reset", "answered"}, term : Term \cup {NoTerm}]]
        /\ \A q \in Search : search[q].step # "idle" => search[q].term \in Term
    BY <1>1, ColdMissAssumption DEF IInv, TypeOK
  <2> USE DEF Stranded
  <2>2. CASE TakeBatch
    BY <1>1, <2>2 DEF TakeBatch, Page, Pending, rows
  <2>3. ASSUME NEW u \in Term, TakeTerm(u) PROVE Stranded(t)'
    BY <1>1, <2>1, <2>3 DEF TakeTerm, First, rows
  <2>4. CASE MarkRegistry \/ AskRegistry \/ RecordRegistry \/ Finish \/ MarkGithub \/ AskGithub
             \/ RecordGithub
    BY <1>1, <2>4, OthersKept
  <2>5. CASE TermFails
    BY <1>1, <2>1, <2>5 DEF TermFails, EndTerm, rows
  <2>6. CASE Restart
    BY <1>1, <2>1, <2>6 DEF Restart, EndTerm
  <2>7. ASSUME NEW q \in Search, NEW u \in Term, EnqueueRead(q, u) PROVE Stranded(t)'
    BY <1>1, <2>1, <2>7 DEF EnqueueRead, loop
  <2>8. ASSUME NEW q \in Search, EnqueueCreate(q) PROVE Stranded(t)'
    BY <1>1, <2>1, <2>8 DEF EnqueueCreate, loop
  <2>9. ASSUME NEW q \in Search, EnqueueReset(q) PROVE Stranded(t)'
    BY <1>1, <2>1, <2>9 DEF EnqueueReset, loop
  <2>10. CASE UNCHANGED vars
    BY <1>1, <2>10 DEF vars, rows, loop
  <2>11. QED
    BY <1>1, <2>2, <2>3, <2>4, <2>5, <2>6, <2>7, <2>8, <2>9, <2>10 DEF Next, Cascade
<1>2. IInv /\ [Next]_vars => [\A t \in Term : Stranded(t) => Stranded(t)']_vars
  BY <1>1
<1>3. QED
  BY Invariance, <1>2, PTL DEF Spec

\* A recorded term leaves the queue in the hands of the loop only, when its look-up
\* ends or goes on to GitHub: no exception, restart, search or other term's look-up
\* takes it out.
THEOREM TakenByTheLoop ==
  Spec => [][\A t \in Pending \ Pending' :
               term = t /\ pc \in {"finish", "mark_github", "record_github"}]_vars
<1> DEFINE Taken(t) == term = t /\ pc \in {"finish", "mark_github", "record_github"}
<1>1. ASSUME IInv, [Next]_vars, NEW t \in Pending, t \notin Pending' PROVE Taken(t)
  <2>1. row \in [Term -> Row] /\ t \in Term /\ term \in Term \cup {NoTerm}
        /\ row[t].status \in {"queued", "checking_registry"}
        /\ row'[t].status \notin {"queued", "checking_registry"}
    BY <1>1 DEF IInv, TypeOK, Pending
  <2>2. row' # row
    BY <2>1
  <2>3. CASE MarkRegistry
    BY <1>1, <2>1, <2>3 DEF MarkRegistry, Row, IInv, TypeOK
  <2>4. CASE RecordRegistry
    BY <1>1, <2>1, <2>4 DEF RecordRegistry, Row, IInv, TypeOK
  <2>5. CASE Finish \/ MarkGithub \/ RecordGithub
    <3>1. pc \in {"finish", "mark_github", "record_github"}
      BY <2>5 DEF Finish, MarkGithub, RecordGithub
    <3>2. term = t
      BY <1>1, <2>1, <2>5, OthersKept
    <3>3. QED
      BY <3>1, <3>2
  <2>6. CASE \E q \in Search : EnqueueCreate(q) \/ EnqueueReset(q)
    <3>1. PICK q \in Search : EnqueueCreate(q) \/ EnqueueReset(q)
      BY <2>6
    <3>2. \/ row' = row
          \/ row' = [row EXCEPT ![search[q].term] = Requeued(@)]
      BY <3>1 DEF EnqueueCreate, EnqueueReset
    <3>3. CASE search[q].term = t
      <4>1. Requeued(row[t]).status = "queued"
        BY <2>1, RequeuedFields
      <4>2. row'[t] = row[t] \/ row'[t] = Requeued(row[t])
        BY <2>1, <3>2, <3>3
      <4>3. QED
        BY <2>1, <4>1, <4>2
    <3>4. CASE search[q].term # t
      BY <2>1, <3>2, <3>4
    <3>5. QED
      BY <3>3, <3>4
  <2>7. QED
    BY <1>1, <2>2, <2>3, <2>4, <2>5, <2>6
       DEF Next, Cascade, TakeBatch, TakeTerm, AskRegistry, AskGithub, TermFails, Restart,
           EnqueueRead, rows, vars
<1>2. IInv /\ [Next]_vars => [\A t \in Pending \ Pending' : Taken(t)]_vars
  BY <1>1
<1>3. QED
  BY Invariance, <1>2, PTL DEF Spec
=============================================================================
