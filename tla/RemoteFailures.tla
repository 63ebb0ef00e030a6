--------------------------- MODULE RemoteFailures ---------------------------
(***************************************************************************)
(* What can go wrong between the remote MCP client and a server, how the   *)
(* client wraps it, and what the user is told (sandbox/mcp_client.py,      *)
(* auth_signals.py).  A failure is named by its root cause, the exception  *)
(* under all wrapping, and by how it leaves the MCP library: bare, in an   *)
(* exception group, or in a group that the closing transport raises.       *)
(***************************************************************************)
EXTENDS Naturals, Sequences

HttpRoot == {"unauthorized", "payment", "notfound", "limited", "server", "client"}
RpcRoot  == {"rpc_auth", "rpc"}                     \* McpError, by its message
NetRoot  == {"tls", "dns", "refused", "network"}    \* httpx.RequestError, by its message

\* "version": the library's RuntimeError about protocol revisions.  "other" is
\* any exception the client has no clause for.
Root == HttpRoot \cup RpcRoot \cup NetRoot
          \cup {"timeout", "cancelled", "version", "runtime", "other"}

How == {"bare", "group", "close"}

Host == {"public", "private", "incompatible"}

-----------------------------------------------------------------------------
(* classify_connection_error: a reason, and whether a token form and an     *)
(* OAuth button are offered with it.                                        *)

Info(reason, form, oauth) == [reason |-> reason, form |-> form, oauth |-> oauth]

Reason(root) ==
  CASE root \in {"unauthorized", "rpc_auth"}        -> "unauthorized"
    [] root = "payment"                             -> "payment_required"
    [] root = "notfound"                            -> "not_found"
    [] root = "limited"                             -> "rate_limited"
    [] root = "server"                              -> "server_error"
    [] root \in {"tls", "dns", "refused"}           -> "connection_error"
    [] root \in {"timeout", "cancelled", "timeout_error"} -> "timeout"
    [] root = "version"                             -> "incompatible"
    [] OTHER                                        -> "unknown"

\* Reasons no credential can do anything about.
Hopeless == {"payment_required", "not_found", "rate_limited", "server_error", "incompatible"}

Told(reason) == Info(reason, reason \notin Hopeless, reason \notin Hopeless)

Classify(host, root) ==
  Told(IF host = "incompatible" THEN "incompatible" ELSE Reason(root))

\* _classify_auth_rejection_body and the JSON bodies of the probe: what a second,
\* plain request to a server that refused the credentials can find out.
ProbeAnswer == {"none", "hint_401", "hint_403", "payment", "oauth", "other"}

Probed(info, found) ==
  CASE found = "none"                    -> info
    [] found = "payment"                 -> Told("payment_required")
    [] found \in {"hint_403", "oauth"}   -> Info("unauthorized", FALSE, TRUE)
    [] found \in {"hint_401", "other"}   -> Told("unauthorized")

\* The probe repeats the request, so it needs the credentials it carried: those
\* of an HTTP failure, in one of the headers it knows.
MayProbe(info, token, root) ==
  info.reason = "unauthorized" /\ token = "standard" /\ root = "unauthorized"

-----------------------------------------------------------------------------
(* What leaves _do_connect and _do_invoke.                                  *)

\* Text of errors names the URL, which may itself look like a status.
LooksLikeAuth(root, misleading) ==
  root = "unauthorized" \/ (root \in HttpRoot \cup NetRoot /\ misleading)

\* A refusal seen as such at once; an answer, no exception.
RefusedAtOnce(how, root, misleading) ==
  how = "bare" /\ LooksLikeAuth(root, misleading)

\* Mutant: the closing of a transport fails like the transport itself.
RaisedUnsorted(how, root) ==
  IF how = "close" \/ root \in HttpRoot \cup NetRoot THEN "transport" ELSE "client"

\* The class of the exception otherwise.  A raise in the clause for groups does
\* not meet the clauses beside it.
Raised(how, root) ==
  CASE how = "close"                                          -> "client"
    [] how = "group" /\ root \in HttpRoot                     -> "http"
    [] how \in {"group", "bare"} /\ root \in RpcRoot          -> "mcp"
    [] how = "group" /\ root \notin HttpRoot \cup RpcRoot     -> "client"
    [] how = "bare" /\ root \in {"timeout", "cancelled"}      -> "timeout"
    [] how = "bare" /\ root \in HttpRoot \cup NetRoot         -> "transport"
    [] how = "bare" /\ root \in {"version", "runtime"}        -> "runtime"
    [] how = "bare" /\ root = "other"                         -> "other"

\* What is raised, outermost first.  A cancellation is raised as a timeout of
\* nothing (from None).
Wrapping(how, root) ==
  CASE Raised(how, root) = "client"    -> <<"client_error", "group", root>>
    [] Raised(how, root) = "transport" -> <<"transport_error", root>>
    [] Raised(how, root) = "timeout"   ->
         IF root = "cancelled" THEN <<"timeout_error">> ELSE <<"timeout_error", root>>
    [] OTHER                           -> <<root>>

Wrapper == {"client_error", "transport_error", "timeout_error", "group"}

\* Mutant: one cause is followed, not all of them.
FirstCause(chain) == IF Len(chain) > 1 THEN chain[2] ELSE chain[1]

\* Causes and groups are followed as long as there are any.
Unwrapped(chain) ==
  LET bare == {i \in 1..Len(chain) : chain[i] \notin Wrapper}
  IN chain[IF bare = {} THEN Len(chain) ELSE CHOOSE i \in bare : \A j \in bare : i <= j]

Retryable == {"timeout", "transport"}

\* What connect and invoke turn into a result themselves; the rest is left to
\* the route.
Handled(op) ==
  {"timeout", "transport", "client", "mcp"} \cup (IF op = "connect" THEN {"http", "runtime"} ELSE {})

-----------------------------------------------------------------------------
(* The result of a tools/call: structured content, text blocks, isError.    *)

ToolResult == [structured : {"none", "plain", "auth"},
               text       : {"none", "plain", "says_auth", "mentions_auth"},
               isError    : BOOLEAN]

\* extract_inband_auth_error on both parts; text that merely mentions
\* credentials counts only in a result that is an error.
InBandAuth(r) ==
  \/ r.structured = "auth"
  \/ r.text = "says_auth"
  \/ r.isError /\ r.text = "mentions_auth"

Outcome(r) ==
  IF InBandAuth(r) THEN "auth" ELSE IF r.isError THEN "error" ELSE "ok"
=============================================================================
