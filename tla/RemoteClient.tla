---------------------------- MODULE RemoteClient ----------------------------
(***************************************************************************)
(* One test request against a remote MCP server, from the route to the     *)
(* answer (sandbox/mcp_client.py, routes.py): attempts, each of which opens *)
(* a transport, shakes hands, asks for the tools or calls one and closes   *)
(* the transport; the retry after transient failures; the classification   *)
(* of what went wrong, with its probe; and the route's own clause for what *)
(* the client lets through.  The server, the library and whoever may       *)
(* cancel the request behave as they like.                                 *)
(***************************************************************************)
EXTENDS Naturals, RemoteFailures

CONSTANT MaxRetries

ASSUME RemoteClientAssumption == MaxRetries \in Nat

VARIABLES
  request,      \* what is asked of whom, and with which credentials
  stage,        \* where the request is
  attempt,      \* attempts made before this one
  pending,      \* exception of the body while the transport closes, or "none"
  reply,        \* what the server's reply amounts to, or "none"
  answer,       \* the response of the route
  cause,        \* history: root of the failure that ended the attempt
  cancelled     \* history: the request was cancelled

vars == <<request, stage, attempt, pending, reply, answer, cause, cancelled>>

-----------------------------------------------------------------------------
Request == [op : {"connect", "invoke"}, token : {"none", "standard", "custom"},
            host : Host, misleading : BOOLEAN]

NoAnswer == [kind |-> "none"]

\* ToolConnectResponse and ToolInvokeResponse: the fields the dialog branches on.
Answer == [kind : {"ok", "error", "crash"}, auth : BOOLEAN, reason : {"none"} \cup {Reason(r) : r \in Root},
           form : BOOLEAN, oauth : BOOLEAN]

\* Neither a reason nor a hint to the dialog.
Plain(kind, auth) ==
  [kind |-> kind, auth |-> auth, reason |-> "none", form |-> FALSE, oauth |-> FALSE]

Ok == Plain("ok", FALSE)

\* A plain 500.
Crash == Plain("crash", FALSE)

\* A refusal seen at once says so and nothing else.
BareRefusal == Plain("error", TRUE)

ErrorOf(info) ==
  [kind |-> "error", auth |-> info.reason = "unauthorized",
   reason |-> info.reason, form |-> info.form, oauth |-> info.oauth]

ReplyAnswer ==
  CASE reply = "ok"    -> Ok
    [] reply = "auth"  -> ErrorOf(Told("unauthorized"))
    [] reply = "error" -> Plain("error", FALSE)

Init ==
  /\ request \in Request
  /\ stage = "accepted" /\ attempt = 0
  /\ pending = "none" /\ reply = "none" /\ answer = NoAnswer
  /\ cause = "none" /\ cancelled = FALSE

-----------------------------------------------------------------------------
Responds(a) == stage' = "done" /\ answer' = a

\* The outer except clause of connect and invoke, or else the route's.
Classified(how, root) ==
  LET info == Classify(request.host, Unwrapped(Wrapping(how, root)))
  IN IF Raised(how, root) \in Handled(request.op) /\ MayProbe(info, request.token, root)
     THEN stage' = "probing" /\ UNCHANGED answer
     ELSE Responds(ErrorOf(info))

\* Mutant: one attempt too many.
FailsOneMore(how, root) ==
  /\ cause' = root /\ pending' = "none"
  /\ IF Raised(how, root) \in Retryable /\ attempt <= MaxRetries
     THEN stage' = "backoff" /\ UNCHANGED answer
     ELSE Classified(how, root)

\* An attempt ends with a failure.
AttemptFails(how, root) ==
  /\ cause' = root /\ pending' = "none"
  /\ IF RefusedAtOnce(how, root, request.misleading) THEN Responds(BareRefusal)
     ELSE IF Raised(how, root) \in Retryable /\ attempt < MaxRetries
     THEN stage' = "backoff" /\ UNCHANGED answer
     ELSE Classified(how, root)

-----------------------------------------------------------------------------
\* The constructor refuses hosts that are not public: inside the route's try for
\* connect, before it for invoke, which then answers with a plain 500.
Construct ==
  /\ stage = "accepted"
  /\ IF request.host # "private" THEN stage' = "opening" /\ UNCHANGED answer
     ELSE Responds(IF request.op = "connect" THEN ErrorOf(Classify("private", "other"))
                   ELSE Crash)
  /\ UNCHANGED <<request, attempt, pending, reply, cause, cancelled>>

Open ==
  /\ stage = "opening"
  /\ stage' = "handshake"
  /\ UNCHANGED <<request, attempt, pending, reply, answer, cause, cancelled>>

OpenFails(how, root) ==
  /\ stage = "opening"
  /\ how # "close"
  /\ AttemptFails(how, root)
  /\ UNCHANGED <<request, attempt, reply, cancelled>>

Initialized ==
  /\ stage = "handshake"
  /\ stage' = "exchange"
  /\ UNCHANGED <<request, attempt, pending, reply, answer, cause, cancelled>>

\* The server has listed its tools or run one, and the reply has arrived.
Replies(r) ==
  /\ stage = "exchange"
  /\ reply' = IF request.op = "connect" THEN "ok" ELSE Outcome(r)
  /\ stage' = "closing"
  /\ UNCHANGED <<request, attempt, pending, answer, cause, cancelled>>

\* Whatever the body raises, the transport is closed first.
BodyFails(root) ==
  /\ stage \in {"handshake", "exchange"}
  /\ pending' = root
  /\ stage' = "closing"
  /\ UNCHANGED <<request, attempt, reply, answer, cause, cancelled>>

\* Errors of closing are swallowed, except for groups, which take the place of
\* both the exception of the body and its reply.
Close ==
  /\ stage = "closing"
  /\ IF pending = "none"
     THEN Responds(ReplyAnswer) /\ UNCHANGED <<pending, cause>>
     ELSE AttemptFails("bare", pending)
  /\ UNCHANGED <<request, attempt, reply, cancelled>>

CloseRaises(root) ==
  /\ stage = "closing"
  /\ AttemptFails("close", root)
  /\ UNCHANGED <<request, attempt, reply, cancelled>>

\* Mutant: the attempts are not counted.
RetryForever ==
  /\ stage = "backoff"
  /\ stage' = "opening"
  /\ reply' = "none" /\ cause' = "none"
  /\ UNCHANGED <<request, attempt, pending, answer, cancelled>>

\* The whole request is repeated, a tools/call the server may have run included.
Retry ==
  /\ stage = "backoff"
  /\ stage' = "opening"
  /\ attempt' = attempt + 1
  /\ reply' = "none" /\ cause' = "none"
  /\ UNCHANGED <<request, pending, answer, cancelled>>

Probe(found) ==
  /\ stage = "probing"
  /\ Responds(ErrorOf(Probed(Classify(request.host, cause), found)))
  /\ UNCHANGED <<request, attempt, pending, reply, cause, cancelled>>

\* A cancellation inside an attempt is taken for a timeout; elsewhere it ends
\* the request.
Cancel ==
  /\ ~cancelled /\ cancelled' = TRUE
  /\ \/ stage \in {"handshake", "exchange"} /\ pending' = "cancelled" /\ stage' = "closing"
        /\ UNCHANGED <<answer, cause>>
     \/ stage \in {"opening", "closing"} /\ AttemptFails("bare", "cancelled")
     \/ stage \in {"backoff", "probing"} /\ stage' = "aborted"
        /\ UNCHANGED <<answer, pending, cause>>
  /\ UNCHANGED <<request, attempt, reply>>

-----------------------------------------------------------------------------
ClientStep ==
  \/ Construct \/ Open \/ Initialized \/ Close \/ Retry
  \/ \E r \in ToolResult : Replies(r)
  \/ \E root \in Root : BodyFails(root) \/ CloseRaises(root)
                         \/ \E how \in How : OpenFails(how, root)
  \/ \E found \in ProbeAnswer : Probe(found)

\* An answered or aborted request rests.
Next == ClientStep \/ Cancel

Spec == Init /\ [][Next]_vars

\* The steps the client takes on its own.  All others wait for the server: no
\* await of the library has a deadline, and the timeouts of HTTP are for one read.
OwnStep == Construct \/ Retry

FairSpec == Spec /\ WF_vars(OwnStep)

-----------------------------------------------------------------------------
TypeOK ==
  /\ request \in Request
  /\ stage \in {"accepted", "opening", "handshake", "exchange", "closing", "backoff",
                "probing", "done", "aborted"}
  /\ attempt \in 0..MaxRetries
  /\ pending \in {"none"} \cup Root /\ cause \in {"none"} \cup Root
  /\ reply \in {"none", "ok", "auth", "error"}
  /\ answer \in Answer \cup {NoAnswer} /\ (stage = "done" <=> answer \in Answer)
  /\ cancelled \in BOOLEAN

\* However the library wraps a failure and whoever catches it, the user is told
\* the reason of its root: a refusal of credentials never ends as an unknown
\* error, and nothing else is taken for one.  (The probe may find out that a
\* refusal was about payment.)
CauseIsNamed ==
  stage = "done" /\ answer.kind = "error" /\ cause # "none" /\ ~request.misleading =>
    \/ answer.reason = Classify(request.host, cause).reason
    \/ cause = "unauthorized" /\ (answer.auth \/ answer.reason = "payment_required")

\* _with_retries repeats a request that ran out of time, that the network lost, or
\* whose HTTP answer was an error other than refused credentials, although such
\* an answer may follow a tools/call that was run.  Refused credentials and JSON-RPC
\* errors are final however they are wrapped and whenever the transport fails on
\* top of them, and so is a reply that arrived, unless somebody cancels.
Transient == (HttpRoot \ {"unauthorized"}) \cup NetRoot \cup {"timeout", "cancelled"}

OnlyTransientsAreRepeated ==
  [][attempt' # attempt => cause \in Transient /\ (reply = "none" \/ cancelled)]_vars

\* What mcp_client.py says of the failures it repeats beside timeouts: a transport
\* error is of the network.  An HTTP answer is repeated all the same.
OnlyNetworkFailuresAreRepeated ==
  [][attempt' # attempt => cause \in NetRoot \cup {"timeout", "cancelled"}]_vars

\* A request ends, or one of its attempts waits for its server for good: it does
\* not go round in attempts, classifications and probes, whatever the server and the
\* library do and whoever cancels.
AtServer == {"opening", "handshake", "exchange", "closing", "probing"}

RequestEndsOrWaits ==
  <>(stage \in {"done", "aborted"}) \/ \E st \in AtServer : <>[](stage = st)
=============================================================================
