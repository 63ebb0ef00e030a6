------------------------- MODULE RemoteClientProofs -------------------------
(***************************************************************************)
(* Proofs about RemoteClient, for any number of retries.  The heart is a   *)
(* fact about the wrapping alone (RootIsFound): following causes and       *)
(* groups finds the root, but for a cancellation, which leaves none.       *)
(***************************************************************************)
EXTENDS RemoteClient, Integers, TLAPS

\* What is known of a request at each stage.
StageFacts ==
  /\ stage \in {"accepted", "opening", "handshake", "exchange"} =>
       cause = "none" /\ reply = "none" /\ pending = "none"
  /\ stage = "closing" => cause = "none" /\ (pending # "none" <=> reply = "none")
  /\ stage = "probing" => cause = "unauthorized"
  /\ stage = "backoff" => /\ attempt < MaxRetries /\ pending = "none"
                          /\ cause \in Transient
                          /\ reply = "none" \/ cancelled

IInv == TypeOK /\ StageFacts /\ CauseIsNamed

-----------------------------------------------------------------------------
(* Wrapping and unwrapping.                                                 *)

LEMMA RaisedCases ==
  ASSUME NEW how \in How, NEW root \in Root
  PROVE  /\ Raised(how, root) \in {"client", "http", "mcp", "timeout", "transport", "runtime", "other"}
         /\ Raised(how, root) = "timeout" => how = "bare" /\ root \in {"timeout", "cancelled"}
         /\ Raised(how, root) = "transport" => how = "bare" /\ root \in HttpRoot \cup NetRoot
  BY DEF How, Root, HttpRoot, RpcRoot, NetRoot, Raised

LEMMA Unwrap1 ==
  ASSUME NEW r, r \notin Wrapper
  PROVE  Unwrapped(<<r>>) = r
<1>1. {i \in 1..Len(<<r>>) : <<r>>[i] \notin Wrapper} = {1}
  OBVIOUS
<1>2. (CHOOSE i \in {1} : \A j \in {1} : i <= j) = 1
  OBVIOUS
<1>3. QED
  BY <1>1, <1>2 DEF Unwrapped

LEMMA Unwrap2 ==
  ASSUME NEW w \in Wrapper, NEW r, r \notin Wrapper
  PROVE  Unwrapped(<<w, r>>) = r
<1>1. {i \in 1..Len(<<w, r>>) : <<w, r>>[i] \notin Wrapper} = {2}
  OBVIOUS
<1>2. (CHOOSE i \in {2} : \A j \in {2} : i <= j) = 2
  OBVIOUS
<1>3. QED
  BY <1>1, <1>2 DEF Unwrapped

LEMMA Unwrap3 ==
  ASSUME NEW v \in Wrapper, NEW w \in Wrapper, NEW r, r \notin Wrapper
  PROVE  Unwrapped(<<v, w, r>>) = r
<1>1. {i \in 1..Len(<<v, w, r>>) : <<v, w, r>>[i] \notin Wrapper} = {3}
  OBVIOUS
<1>2. (CHOOSE i \in {3} : \A j \in {3} : i <= j) = 3
  OBVIOUS
<1>3. QED
  BY <1>1, <1>2 DEF Unwrapped

LEMMA UnwrapNothing == Unwrapped(<<"timeout_error">>) = "timeout_error"
<1>1. {i \in 1..Len(<<"timeout_error">>) : <<"timeout_error">>[i] \notin Wrapper} = {}
  BY DEF Wrapper
<1>2. QED
  BY <1>1 DEF Unwrapped

\* classify_connection_error follows __cause__ and the groups down to the root of
\* whatever connect and invoke raise; only a cancellation is raised without one.
THEOREM RootIsFound ==
  ASSUME NEW how \in How, NEW root \in Root
  PROVE  Unwrapped(Wrapping(how, root)) \in {root} \cup (IF root = "cancelled" THEN {"timeout_error"} ELSE {})
<1>1. root \notin Wrapper
  BY DEF Root, HttpRoot, RpcRoot, NetRoot, Wrapper
<1>2. {"client_error", "transport_error", "timeout_error", "group"} \subseteq Wrapper
  BY DEF Wrapper
<1>3. CASE Raised(how, root) = "client"
  BY <1>1, <1>2, <1>3, Unwrap3 DEF Wrapping
<1>4. CASE Raised(how, root) = "transport"
  BY <1>1, <1>2, <1>4, Unwrap2 DEF Wrapping
<1>5. CASE Raised(how, root) = "timeout" /\ root = "cancelled"
  BY <1>5, UnwrapNothing DEF Wrapping
<1>6. CASE Raised(how, root) = "timeout" /\ root # "cancelled"
  BY <1>1, <1>2, <1>6, Unwrap2 DEF Wrapping
<1>7. CASE Raised(how, root) \notin {"client", "transport", "timeout"}
  <2>1. Wrapping(how, root) = <<root>>
    BY <1>7 DEF Wrapping
  <2>2. QED
    BY <1>1, <2>1, Unwrap1
<1>8. QED
  BY <1>3, <1>4, <1>5, <1>6, <1>7

LEMMA ReasonIsFound ==
  ASSUME NEW how \in How, NEW root \in Root, NEW host
  PROVE  Classify(host, Unwrapped(Wrapping(how, root))) = Classify(host, root)
<1>1. Reason("timeout_error") = Reason("cancelled")
  BY DEF Reason
<1>2. Reason(Unwrapped(Wrapping(how, root))) = Reason(root)
  BY <1>1, RootIsFound
<1>3. QED
  BY <1>2 DEF Classify

-----------------------------------------------------------------------------
(* Answers.                                                                 *)

LEMMA ReasonsTyped ==
  /\ \A root \in Root, host \in Host : Classify(host, root).reason \in {Reason(r) : r \in Root}
  /\ \A x \in {"unauthorized", "payment_required"} : x \in {Reason(r) : r \in Root}
<1>1. {"version", "unauthorized", "payment"} \subseteq Root
  BY DEF Root, HttpRoot
<1>2. Reason("version") = "incompatible" /\ Reason("unauthorized") = "unauthorized"
      /\ Reason("payment") = "payment_required"
  BY DEF Reason
<1>3. \A root \in Root, host \in Host :
         Classify(host, root).reason \in {"incompatible", Reason(root)}
  BY DEF Classify, Told, Info
<1>4. QED
  BY <1>1, <1>2, <1>3

LEMMA ErrorTyped ==
  ASSUME NEW info, info.reason \in {Reason(r) : r \in Root}, info.form \in BOOLEAN, info.oauth \in BOOLEAN
  PROVE  ErrorOf(info) \in Answer
  BY DEF ErrorOf, Answer

LEMMA ClassifiedTyped ==
  ASSUME NEW root \in Root, NEW host \in Host
  PROVE  ErrorOf(Classify(host, root)) \in Answer
<1>1. Classify(host, root).form \in BOOLEAN /\ Classify(host, root).oauth \in BOOLEAN
  BY DEF Classify, Told, Info
<1>2. QED
  BY <1>1, ReasonsTyped, ErrorTyped

LEMMA ProbedTyped ==
  ASSUME NEW root \in Root, NEW host \in Host, NEW found \in ProbeAnswer
  PROVE  /\ ErrorOf(Probed(Classify(host, root), found)) \in Answer
         /\ Probed(Classify(host, root), found).reason \in
              {"unauthorized", "payment_required", Classify(host, root).reason}
<1> DEFINE info == Probed(Classify(host, root), found)
<1>1. CASE found = "none"
  BY <1>1, ClassifiedTyped DEF Probed
<1>2. CASE found # "none"
  <2>1. info.reason \in {"unauthorized", "payment_required"} /\ info.form \in BOOLEAN /\ info.oauth \in BOOLEAN
    BY <1>2 DEF Probed, Told, Info, ProbeAnswer
  <2>2. QED
    BY <2>1, ReasonsTyped, ErrorTyped
<1>3. QED
  BY <1>1, <1>2

LEMMA PlainAnswersTyped ==
  /\ {Ok, Crash, BareRefusal} \subseteq Answer
  /\ reply \in {"ok", "auth", "error"} => ReplyAnswer \in Answer
<1>1. \A x \in {"ok", "error", "crash"}, y \in BOOLEAN : Plain(x, y) \in Answer
  BY DEF Plain, Answer
<1>2. Ok \in Answer /\ Crash \in Answer /\ BareRefusal \in Answer /\ Plain("error", FALSE) \in Answer
  BY <1>1 DEF Ok, Crash, BareRefusal
<1>3. ErrorOf(Told("unauthorized")) \in Answer
  <2>1. Told("unauthorized").reason = "unauthorized" /\ Told("unauthorized").form \in BOOLEAN
        /\ Told("unauthorized").oauth \in BOOLEAN
    BY DEF Told, Info
  <2>2. QED
    BY <2>1, ReasonsTyped, ErrorTyped
<1>4. QED
  BY <1>2, <1>3 DEF ReplyAnswer

-----------------------------------------------------------------------------
(* An attempt that fails, and the invariant.                                *)

\* What every failing attempt leaves behind, whoever failed.
AttemptFacts ==
  /\ stage' \in {"done", "probing", "backoff"}
  /\ cause' \in Root /\ pending' = "none"
  /\ stage' = "done" => answer' \in Answer
  /\ stage' # "done" => answer' = answer
  /\ stage' = "done" /\ ~request.misleading /\ answer'.kind = "error" =>
       \/ answer'.reason = Classify(request.host, cause').reason
       \/ cause' = "unauthorized" /\ answer'.auth
  /\ stage' = "probing" => cause' = "unauthorized"
  /\ stage' = "backoff" => cause' \in Transient /\ attempt < MaxRetries

LEMMA ClassifiedFacts ==
  ASSUME TypeOK, NEW how \in How, NEW root \in Root, Classified(how, root)
  PROVE  \/ stage' = "done" /\ answer' = ErrorOf(Classify(request.host, root))
         \/ stage' = "probing" /\ answer' = answer /\ root = "unauthorized"
  BY ReasonIsFound DEF Classified, Responds, MayProbe, TypeOK, Request

LEMMA AttemptStep ==
  ASSUME TypeOK, NEW how \in How, NEW root \in Root, AttemptFails(how, root)
  PROVE  /\ AttemptFacts
         /\ stage' = "backoff" => how = "bare"
<1>1. request.host \in Host /\ request.misleading \in BOOLEAN
  BY DEF TypeOK, Request
<1>2. CASE RefusedAtOnce(how, root, request.misleading)
  <2>1. stage' = "done" /\ answer' = BareRefusal /\ cause' = root /\ pending' = "none"
    BY <1>2 DEF AttemptFails, Responds
  <2>2. ~request.misleading => root = "unauthorized"
    BY <1>2 DEF RefusedAtOnce, LooksLikeAuth
  <2>3. BareRefusal \in Answer /\ BareRefusal.auth
    BY PlainAnswersTyped DEF BareRefusal, Plain
  <2>4. QED
    BY <2>1, <2>2, <2>3 DEF AttemptFacts
<1>3. CASE ~RefusedAtOnce(how, root, request.misleading) /\ Raised(how, root) \in Retryable
             /\ attempt < MaxRetries
  <2>1. stage' = "backoff" /\ answer' = answer /\ cause' = root /\ pending' = "none"
    BY <1>3 DEF AttemptFails
  <2>2. how = "bare" /\ root \in HttpRoot \cup NetRoot \cup {"timeout", "cancelled"}
    BY <1>3, RaisedCases DEF Retryable
  <2>3. root # "unauthorized"
    BY <1>3, <2>2 DEF RefusedAtOnce, LooksLikeAuth
  <2>4. root \in Transient
    BY <2>2, <2>3 DEF Transient
  <2>5. QED
    BY <1>3, <2>1, <2>2, <2>3, <2>4 DEF AttemptFacts
<1>4. CASE ~RefusedAtOnce(how, root, request.misleading)
             /\ ~(Raised(how, root) \in Retryable /\ attempt < MaxRetries)
  <2>1. Classified(how, root) /\ cause' = root /\ pending' = "none"
    BY <1>4 DEF AttemptFails
  <2>2. ErrorOf(Classify(request.host, root)) \in Answer
        /\ ErrorOf(Classify(request.host, root)).reason = Classify(request.host, root).reason
    BY <1>1, ClassifiedTyped DEF ErrorOf
  <2>3. QED
    BY <2>1, <2>2, ClassifiedFacts DEF AttemptFacts
<1>5. QED
  BY <1>2, <1>3, <1>4

\* The invariant after a failing attempt.
LEMMA AttemptKeeps ==
  ASSUME IInv, NEW how \in How, NEW root \in Root, AttemptFails(how, root),
         stage \in {"opening", "handshake", "exchange", "closing"},
         how = "bare" => reply = "none" \/ cancelled',
         UNCHANGED <<request, attempt, reply>>, cancelled' \in BOOLEAN
  PROVE  IInv'
<1>1. AttemptFacts /\ (stage' = "backoff" => how = "bare")
  BY AttemptStep DEF IInv
<1>2. TypeOK'
  BY <1>1 DEF IInv, TypeOK, AttemptFacts
<1>3. StageFacts'
  BY <1>1 DEF StageFacts, AttemptFacts
<1>4. CauseIsNamed'
  BY <1>1 DEF CauseIsNamed, AttemptFacts
<1>5. QED
  BY <1>2, <1>3, <1>4 DEF IInv

LEMMA NoneIsNoRoot == "none" \notin Root
  BY DEF Root, HttpRoot, RpcRoot, NetRoot

LEMMA Initially == Init => IInv
<1>1. NoAnswer \notin Answer
  <2>1. \A a \in Answer : a.kind \in {"ok", "error", "crash"}
    BY DEF Answer
  <2>2. QED
    BY <2>1 DEF NoAnswer
<1>2. QED
  <2>1. Init => TypeOK
    <3>1. SUFFICES ASSUME Init PROVE TypeOK
      OBVIOUS
    <3>2. request \in Request /\ attempt \in 0..MaxRetries
      BY <3>1, RemoteClientAssumption DEF Init
    <3>3. stage = "accepted" /\ pending = "none" /\ reply = "none" /\ cause = "none"
          /\ answer = NoAnswer /\ cancelled \in BOOLEAN
      BY <3>1, Zenon DEF Init
    <3>4. QED
      BY <1>1, <3>2, <3>3 DEF TypeOK
  <2>2. Init => StageFacts /\ CauseIsNamed
    BY DEF Init, StageFacts, CauseIsNamed
  <2>3. QED
    BY <2>1, <2>2 DEF IInv

LEMMA InvStep == IInv /\ [Next]_vars => IInv'
<1>1. SUFFICES ASSUME IInv, [Next]_vars PROVE IInv'
  OBVIOUS
<1>2. request.host \in Host /\ TypeOK
  BY <1>1 DEF IInv, TypeOK, Request
<1> USE RemoteClientAssumption
<1>3. CASE Construct
  <2>1. "other" \in Root
    BY DEF Root
  <2>2. ErrorOf(Classify("private", "other")) \in Answer /\ Crash \in Answer /\ Crash.kind = "crash"
    BY <2>1, ClassifiedTyped, PlainAnswersTyped DEF Host, Crash, Plain
  <2>3. QED
    BY <1>1, <1>3, <2>2 DEF Construct, Responds, IInv, TypeOK, StageFacts, CauseIsNamed
<1>4. CASE Open
  BY <1>1, <1>4 DEF Open, IInv, TypeOK, StageFacts, CauseIsNamed
<1>5. ASSUME NEW how \in How, NEW root \in Root, OpenFails(how, root) PROVE IInv'
  BY <1>1, <1>5, AttemptKeeps DEF OpenFails, IInv, TypeOK, StageFacts
<1>6. CASE Initialized
  BY <1>1, <1>6 DEF Initialized, IInv, TypeOK, StageFacts, CauseIsNamed
<1>7. ASSUME NEW r \in ToolResult, Replies(r) PROVE IInv'
  BY <1>1, <1>7 DEF Replies, Outcome, IInv, TypeOK, StageFacts, CauseIsNamed
<1>8. ASSUME NEW root \in Root, BodyFails(root) PROVE IInv'
  BY <1>1, <1>8, NoneIsNoRoot DEF BodyFails, IInv, TypeOK, StageFacts, CauseIsNamed
<1>9. CASE Close
  <2>1. CASE pending = "none"
    <3>1. stage' = "done" /\ answer' = ReplyAnswer /\ cause' = "none"
          /\ UNCHANGED <<request, attempt, pending, reply, cancelled>>
      BY <1>1, <1>9, <2>1 DEF Close, Responds, IInv, StageFacts
    <3>2. reply # "none" => ReplyAnswer \in Answer
      BY <1>1, PlainAnswersTyped DEF IInv, TypeOK
    <3>3. QED
      BY <1>1, <1>9, <2>1, <3>1, <3>2 DEF Close, IInv, TypeOK, StageFacts, CauseIsNamed
  <2>2. CASE pending # "none"
    <3>1. pending \in Root /\ "bare" \in How /\ reply = "none"
      BY <1>1, <1>9, <2>2 DEF Close, IInv, TypeOK, StageFacts, How
    <3>2. QED
      BY <1>1, <1>9, <2>2, <3>1, AttemptKeeps DEF Close, IInv, TypeOK
  <2>3. QED
    BY <2>1, <2>2
<1>10. ASSUME NEW root \in Root, CloseRaises(root) PROVE IInv'
  BY <1>1, <1>10, AttemptKeeps DEF CloseRaises, How, IInv, TypeOK
<1>11. CASE Retry
  <2>1. attempt' \in 0..MaxRetries
    BY <1>1, <1>11 DEF Retry, IInv, TypeOK, StageFacts
  <2>2. QED
    BY <1>1, <1>11, <2>1 DEF Retry, IInv, TypeOK, StageFacts, CauseIsNamed
<1>12. ASSUME NEW found \in ProbeAnswer, Probe(found) PROVE IInv'
  <2>1. stage' = "done" /\ answer' = ErrorOf(Probed(Classify(request.host, cause), found))
        /\ UNCHANGED <<request, attempt, pending, reply, cause, cancelled>>
    BY <1>12 DEF Probe, Responds
  <2>2. cause = "unauthorized" /\ cause \in Root
    BY <1>1, <1>12 DEF Probe, IInv, StageFacts, Root, HttpRoot
  <2>3. answer' \in Answer
        /\ answer'.reason \in {"unauthorized", "payment_required", Classify(request.host, cause).reason}
        /\ (answer'.auth <=> answer'.reason = "unauthorized")
    BY <1>2, <2>1, <2>2, ProbedTyped DEF ErrorOf
  <2>4. QED
    BY <1>1, <2>1, <2>2, <2>3 DEF IInv, TypeOK, StageFacts, CauseIsNamed
<1>13. CASE Cancel
  <2>1. "cancelled" \in Root /\ "bare" \in How
    BY DEF Root, How
  <2>2. CASE stage \in {"handshake", "exchange"} /\ pending' = "cancelled" /\ stage' = "closing"
               /\ UNCHANGED <<answer, cause>>
    BY <1>1, <1>13, <2>1, <2>2 DEF Cancel, IInv, TypeOK, StageFacts, CauseIsNamed
  <2>3. CASE stage \in {"opening", "closing"} /\ AttemptFails("bare", "cancelled")
    BY <1>1, <1>13, <2>1, <2>3, AttemptKeeps DEF Cancel, IInv, TypeOK
  <2>4. CASE stage \in {"backoff", "probing"} /\ stage' = "aborted" /\ UNCHANGED <<answer, pending, cause>>
    BY <1>1, <1>13, <2>4 DEF Cancel, IInv, TypeOK, StageFacts, CauseIsNamed
  <2>5. QED
    BY <1>13, <2>2, <2>3, <2>4 DEF Cancel
<1>14. CASE UNCHANGED vars
  BY <1>1, <1>14 DEF vars, IInv, TypeOK, StageFacts, CauseIsNamed
<1>15. QED
  BY <1>1, <1>3, <1>4, <1>5, <1>6, <1>7, <1>8, <1>9, <1>10, <1>11, <1>12, <1>13, <1>14
     DEF Next, ClientStep

\* Types, what is known at each stage, and the cause named in every answer.
THEOREM Invariance == Spec => []IInv
  BY Initially, InvStep, PTL DEF Spec

-----------------------------------------------------------------------------
(* The theorems.                                                            *)

\* connect and invoke make at most MaxRetries + 1 attempts, and a response is given
\* exactly when the request is done.
THEOREM TypeCorrect == Spec => []TypeOK
<1>1. IInv => TypeOK
  BY DEF IInv
<1>2. QED
  BY Invariance, <1>1, PTL

\* However a failure is wrapped, at whichever attempt and stage, the user is told
\* the reason of its root.
THEOREM CausesAreNamed == Spec => []CauseIsNamed
<1>1. IInv => CauseIsNamed
  BY DEF IInv
<1>2. QED
  BY Invariance, <1>1, PTL

\* _with_retries repeats timeouts, network failures and HTTP errors that are not about
\* credentials, and nothing else: refused credentials, JSON-RPC errors and replies that
\* have arrived are final, however the library wraps them or fails on top of them.
THEOREM TransientsRepeated == Spec => OnlyTransientsAreRepeated
<1>1. IInv /\ [Next]_vars =>
        [attempt' # attempt => cause \in Transient /\ (reply = "none" \/ cancelled)]_vars
  <2>1. SUFFICES ASSUME IInv, [Next]_vars, attempt' # attempt
                 PROVE  cause \in Transient /\ (reply = "none" \/ cancelled)
    OBVIOUS
  <2>2. Retry
    BY <2>1 DEF Next, ClientStep, Construct, Open, OpenFails, Initialized, Replies, BodyFails, Close,
       CloseRaises, Probe, Cancel, vars
  <2>3. QED
    BY <2>1, <2>2 DEF Retry, IInv, StageFacts
<1>2. QED
  BY Invariance, <1>1, PTL DEF Spec, OnlyTransientsAreRepeated

-----------------------------------------------------------------------------
(* Termination: a request has only so many steps left.                      *)

StageRank ==
  CASE stage = "accepted" -> 6 [] stage = "opening" -> 5 [] stage = "handshake" -> 4
    [] stage = "exchange" -> 3 [] stage = "closing" -> 2
    [] stage \in {"backoff", "probing"} -> 1 [] OTHER -> 0

\* Five stages for each attempt not made yet, and those of the present one.
StepsLeft == 5 * (MaxRetries - attempt) + StageRank

RankTable ==
  /\ StageRank \in 0..6
  /\ stage = "accepted" => StageRank = 6
  /\ stage = "opening" => StageRank = 5
  /\ stage = "handshake" => StageRank = 4
  /\ stage = "exchange" => StageRank = 3
  /\ stage = "closing" => StageRank = 2
  /\ stage \in {"backoff", "probing"} => StageRank = 1
  /\ stage \in {"done", "aborted"} => StageRank = 0

LEMMA Ranks == RankTable /\ RankTable'
  BY DEF RankTable, StageRank

\* Within an attempt the rank falls.
LEMMA AttemptGoesOn ==
  ASSUME IInv, UNCHANGED attempt, StageRank' < StageRank
  PROVE  StepsLeft' < StepsLeft
<1>1. attempt \in Nat /\ MaxRetries \in Nat
  BY RemoteClientAssumption DEF IInv, TypeOK
<1>2. PICK r \in 0..6 : r = StageRank
  BY Ranks DEF RankTable
<1>3. PICK q \in 0..6 : q = StageRank'
  BY Ranks DEF RankTable
<1>4. StepsLeft = 5 * (MaxRetries - attempt) + r /\ StepsLeft' = 5 * (MaxRetries - attempt) + q
  BY <1>2, <1>3 DEF StepsLeft
<1>5. q < r
  BY <1>2, <1>3
<1>6. 5 * (MaxRetries - attempt) + q < 5 * (MaxRetries - attempt) + r
  BY <1>1, <1>5
<1>7. QED
  BY <1>4, <1>6

\* A failing attempt leaves nothing but its classification or the backoff.
LEMMA AttemptIsOver ==
  ASSUME IInv, NEW how \in How, NEW root \in Root, AttemptFails(how, root), UNCHANGED attempt,
         stage \in {"opening", "handshake", "exchange", "closing"}
  PROVE  StepsLeft' < StepsLeft
<1>1. stage' \in {"done", "probing", "backoff"}
  BY AttemptStep DEF IInv, AttemptFacts
<1>2. StageRank \in 2..6 /\ StageRank' \in 0..1
  BY <1>1, Ranks DEF RankTable
<1>3. QED
  BY <1>2, AttemptGoesOn

LEMMA StepShrinks ==
  ASSUME IInv, Next
  PROVE  StepsLeft' < StepsLeft
<1>1. CASE Construct
  BY <1>1, Ranks, AttemptGoesOn DEF RankTable, Construct, Responds
<1>2. CASE Open
  BY <1>2, Ranks, AttemptGoesOn DEF RankTable, Open
<1>3. ASSUME NEW how \in How, NEW root \in Root, OpenFails(how, root) PROVE StepsLeft' < StepsLeft
  BY <1>3, AttemptIsOver DEF OpenFails
<1>4. CASE Initialized
  BY <1>4, Ranks, AttemptGoesOn DEF RankTable, Initialized
<1>5. ASSUME NEW r \in ToolResult, Replies(r) PROVE StepsLeft' < StepsLeft
  BY <1>5, Ranks, AttemptGoesOn DEF RankTable, Replies
<1>6. ASSUME NEW root \in Root, BodyFails(root) PROVE StepsLeft' < StepsLeft
  BY <1>6, Ranks, AttemptGoesOn DEF RankTable, BodyFails
<1>7. CASE Close
  <2>1. CASE pending = "none"
    BY <1>7, <2>1, Ranks, AttemptGoesOn DEF RankTable, Close, Responds
  <2>2. CASE pending # "none"
    BY <1>7, <2>2, AttemptIsOver DEF Close, How, IInv, TypeOK
  <2>3. QED
    BY <2>1, <2>2
<1>8. ASSUME NEW root \in Root, CloseRaises(root) PROVE StepsLeft' < StepsLeft
  BY <1>8, AttemptIsOver DEF CloseRaises, How
<1>9. CASE Retry
  <2>1. attempt \in Nat /\ MaxRetries \in Nat /\ attempt' = attempt + 1
        /\ StageRank = 1 /\ StageRank' = 5
    BY <1>9, RemoteClientAssumption, Ranks DEF RankTable, Retry, IInv, TypeOK
  <2>2. QED
    BY <2>1 DEF StepsLeft
<1>10. ASSUME NEW found \in ProbeAnswer, Probe(found) PROVE StepsLeft' < StepsLeft
  BY <1>10, Ranks, AttemptGoesOn DEF RankTable, Probe, Responds
<1>11. CASE Cancel
  <2>1. CASE stage \in {"opening", "closing"} /\ AttemptFails("bare", "cancelled")
    BY <1>11, <2>1, AttemptIsOver DEF Cancel, How, Root
  <2>2. CASE stage \in {"handshake", "exchange"} /\ stage' = "closing"
    BY <1>11, <2>2, Ranks, AttemptGoesOn DEF RankTable, Cancel
  <2>3. CASE stage \in {"backoff", "probing"} /\ stage' = "aborted"
    BY <1>11, <2>3, Ranks, AttemptGoesOn DEF RankTable, Cancel
  <2>4. QED
    BY <1>11, <2>1, <2>2, <2>3 DEF Cancel
<1>12. QED
  BY <1>1, <1>2, <1>3, <1>4, <1>5, <1>6, <1>7, <1>8, <1>9, <1>10, <1>11 DEF Next, ClientStep

\* Every step, whoever takes it, brings the request closer to its end: it takes at
\* most 5 * MaxRetries + 6 of them, retries, the classification, its probe and
\* cancellations included.
THEOREM RequestShrinks ==
  Spec => /\ [](StepsLeft \in 0..(5 * MaxRetries + 6))
          /\ [][StepsLeft' < StepsLeft]_vars
<1>1. IInv => StepsLeft \in 0..(5 * MaxRetries + 6)
  BY RemoteClientAssumption, Ranks DEF RankTable, IInv, TypeOK, StepsLeft
<1>2. IInv /\ [Next]_vars => [StepsLeft' < StepsLeft]_vars
  BY StepShrinks
<1>3. QED
  BY Invariance, <1>1, <1>2, PTL DEF Spec
=============================================================================
