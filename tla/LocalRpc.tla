------------------------------ MODULE LocalRpc ------------------------------
(***************************************************************************)
(* The stdio MCP client of a sandbox session (sandbox/local_mcp_client.py):*)
(* a server process run by docker exec, a reader task that matches lines   *)
(* of its output with pending requests, connect with its handshake and the *)
(* one retry after an out-of-memory kill, concurrent invocations, and      *)
(* _cleanup, whose awaits let the others run in between.                   *)
(*                                                                         *)
(* Requests are named by the numbers the client gives them; they are never *)
(* reused, not even by a second process.  The output of the server is the  *)
(* set of its unread lines: it may answer in any order, so their order     *)
(* says nothing more.                                                      *)
(***************************************************************************)
EXTENDS Naturals, FiniteSets

CONSTANTS
  MaxCalls,         \* bound: requests sent by the client
  MaxUnread,        \* bound: lines of output not read yet
  ServerId          \* numbers the server uses for requests of its own

ASSUME LocalRpcAssumption ==
  MaxCalls \in Nat \ {0} /\ MaxUnread \in Nat /\ ServerId \subseteq 0..(MaxCalls - 1)

VARIABLES
  stage, then,      \* connect and disconnect; where a _cleanup leads
  retried,          \* _oom_retried
  proc, oom,        \* the process; whether the memory limit killed it
  heard, stdout,    \* requests it received, lines it printed
  reader,           \* the reader task
  nextId, pending,  \* _request_id and the keys of _pending
  call,             \* how each request ended
  late,             \* history: sent when nobody read the output any more
  said              \* history: requests that were answered

process == <<proc, oom, heard, stdout>>
control == <<stage, then, retried>>
calls   == <<nextId, pending, call, late>>
vars    == <<control, process, reader, calls, said>>

-----------------------------------------------------------------------------
Id == 0..(MaxCalls - 1)

\* Lines of output: a response, a request of the server's own, or a value that
\* is JSON and no object.
Line == [kind : {"answer", "error", "request"}, id : Id] \cup {[kind |-> "scalar"]}

Waiting == {i \in Id : call[i] = "waiting"}

Init ==
  /\ stage = "spawn" /\ then = "failed" /\ retried = FALSE
  /\ proc = "none" /\ oom = FALSE /\ heard = {} /\ stdout = {}
  /\ reader = "none"
  /\ nextId = 0 /\ pending = {} /\ call = [i \in Id |-> "unsent"] /\ late = {}
  /\ said = {}

-----------------------------------------------------------------------------
(* The server.  When it dies its output ends at once, and its exit code is  *)
(* seen some time later.                                                    *)

Prints(line) ==
  /\ proc = "alive"
  /\ Cardinality(stdout \cup {line}) <= MaxUnread
  /\ stdout' = stdout \cup {line}
  /\ UNCHANGED <<control, proc, oom, heard, reader, calls>>

Answers(i) ==
  /\ i \in heard
  /\ \E k \in {"answer", "error"} : Prints([kind |-> k, id |-> i])
  /\ said' = said \cup {i}

Chatters ==
  /\ Prints([kind |-> "scalar"]) \/ \E i \in ServerId : Prints([kind |-> "request", id |-> i])
  /\ UNCHANGED said

Dies ==
  /\ proc = "alive"
  /\ proc' = "dead"
  /\ oom' \in BOOLEAN
  /\ UNCHANGED <<control, heard, stdout, reader, calls, said>>

Reaped ==
  /\ proc = "dead"
  /\ proc' = "reaped"
  /\ UNCHANGED <<control, oom, heard, stdout, reader, calls, said>>

-----------------------------------------------------------------------------
(* _send_request and _read_stdout.                                          *)

\* Writing to a process that died may raise, or not; the key stays either way.
Send ==
  /\ nextId < MaxCalls
  /\ nextId' = nextId + 1
  /\ pending' = pending \cup {nextId}
  /\ \/ call' = [call EXCEPT ![nextId] = "waiting"]
     \/ proc # "alive" /\ call' = [call EXCEPT ![nextId] = "failed"]
  /\ heard' = IF proc = "alive" THEN heard \cup {nextId} ELSE heard
  /\ late' = IF reader = "reading" THEN late ELSE late \cup {nextId}
  /\ UNCHANGED <<proc, oom, stdout, reader, said>>

\* wait_for cancels the future and leaves its key.
TimesOut(i) ==
  /\ call[i] = "waiting"
  /\ call' = [call EXCEPT ![i] = "timeout"]
  /\ UNCHANGED <<control, process, reader, nextId, pending, late, said>>

\* faulty: answers are taken in the order of the requests
OldestPending(line) == CHOOSE i \in pending \cup {line.id} : \A j \in pending : i <= j

Addressee(line) == line.id

\* faulty: a future that is done is set again
Registered(i) == i \in pending

Resolvable(i) == i \in pending /\ call[i] = "waiting"

Reads(line) ==
  /\ reader = "reading" /\ line \in stdout /\ line.kind # "scalar"
  /\ stdout' = stdout \ {line}
  /\ LET i == Addressee(line)
     IN /\ pending' = pending \ {i}
        /\ call' = IF Resolvable(i) THEN [call EXCEPT ![i] = line.kind] ELSE call
  /\ UNCHANGED <<control, proc, oom, heard, reader, nextId, late, said>>

\* response.get raises on a value that is no object, and the task ends.
ReaderBreaks ==
  /\ reader = "reading" /\ [kind |-> "scalar"] \in stdout
  /\ stdout' = stdout \ {[kind |-> "scalar"]}
  /\ reader' = "broken"
  /\ UNCHANGED <<control, proc, oom, heard, calls, said>>

\* faulty: the keys go before the futures are failed
EofForgets == call

EofFails == [i \in Id |-> IF Resolvable(i) THEN "failed" ELSE call[i]]

EndOfOutput ==
  /\ reader = "reading" /\ proc \in {"dead", "reaped"} /\ stdout = {}
  /\ reader' = "ended"
  /\ call' = EofFails
  /\ pending' = {}
  /\ UNCHANGED <<control, process, nextId, late, said>>

-----------------------------------------------------------------------------
(* connect: spawn, initialize, tools/list, and one more attempt when the    *)
(* first was killed for memory.                                             *)

Last == nextId - 1

\* _detect_oom_kill: certain once the exit code is known; before that Docker
\* and the counters of the container's memory group are asked, which other
\* processes and the first attempt have also moved.
Diagnosed(o) == IF proc = "reaped" THEN o = oom ELSE o \in BOOLEAN

\* faulty: every kill is retried
RetryAlways == TRUE

MayRetry == ~retried

\* Only exceptions clean up after themselves; a retry does so in any case.
Fails(o, cleans) ==
  IF o /\ MayRetry
  THEN stage' = "cleanup" /\ then' = "spawn" /\ retried' = TRUE
  ELSE /\ IF cleans THEN stage' = "cleanup" /\ then' = "failed"
                    ELSE stage' = "failed" /\ UNCHANGED then
       /\ UNCHANGED retried

\* faulty: a new process starts counting again
CountsAgain == 0

\* The requests of a second attempt go on counting.
FirstId == nextId

Spawn ==
  /\ stage = "spawn"
  /\ stage' = "settle" /\ UNCHANGED <<then, retried>>
  /\ proc' = "alive" /\ oom' = FALSE /\ heard' = {} /\ stdout' = {} /\ reader' = "reading"
  /\ nextId' = FirstId
  /\ UNCHANGED <<pending, call, late, said>>

SpawnFails ==
  /\ stage = "spawn"
  /\ stage' = "cleanup" /\ then' = "failed" /\ UNCHANGED retried
  /\ UNCHANGED <<process, reader, calls, said>>

\* The exit code is looked at once, shortly after the start.
ExitsEarly ==
  /\ stage = "settle" /\ proc = "reaped"
  /\ Fails(oom, FALSE)
  /\ UNCHANGED <<process, reader, calls, said>>

Initialize ==
  /\ stage = "settle" /\ proc # "reaped"
  /\ stage' = "init" /\ UNCHANGED <<then, retried>>
  /\ Send

\* What came back is taken for a response if it carries no error.
Accepted == {"answer", "request"}

ListTools ==
  /\ stage = "init" /\ call[Last] \in Accepted
  /\ stage' = "list" /\ UNCHANGED <<then, retried>>
  /\ Send

Connected ==
  /\ stage = "list" /\ call[Last] \in Accepted
  /\ stage' = "connected" /\ UNCHANGED <<then, retried>>
  /\ UNCHANGED <<process, reader, calls, said>>

Refused ==
  /\ stage \in {"init", "list"} /\ call[Last] = "error"
  /\ Fails(FALSE, FALSE)
  /\ UNCHANGED <<process, reader, calls, said>>

HandshakeTimesOut ==
  /\ stage \in {"init", "list"} /\ call[Last] = "timeout"
  /\ \E o \in BOOLEAN : Diagnosed(o) /\ Fails(o, FALSE)
  /\ UNCHANGED <<process, reader, calls, said>>

\* The request failed, or the notification after it or an answer of another
\* shape raises.  Here "not found" in the error output rules the kill out.
HandshakeRaises ==
  /\ stage \in {"init", "list"} /\ call[Last] \in Accepted \cup {"failed"}
  /\ \E o \in BOOLEAN : (Diagnosed(o) \/ ~o) /\ Fails(o, TRUE)
  /\ UNCHANGED <<process, reader, calls, said>>

-----------------------------------------------------------------------------
(* invoke, disconnect and _cleanup.                                         *)

\* A session that is being destroyed still hands out its client.
Invoke ==
  /\ stage = "connected" \/ (stage = "cleanup" /\ then = "closed")
  /\ proc \in {"alive", "dead"}
  /\ UNCHANGED control
  /\ Send

\* Verification runs also disconnect after a failed connect.
Disconnect ==
  /\ \/ stage = "connected" /\ then' = "closed"
     \/ stage = "failed" /\ then' = "failed"
  /\ stage' = "cleanup" /\ UNCHANGED retried
  /\ UNCHANGED <<process, reader, calls, said>>

CleanupReader ==
  /\ stage = "cleanup" /\ reader # "none"
  /\ reader' = "none"
  /\ UNCHANGED <<control, process, calls, said>>

\* Whoever still waits is left to its timeout.
CleanupProcess ==
  /\ stage = "cleanup" /\ reader = "none"
  /\ stage' = then
  /\ proc' = "none" /\ heard' = {} /\ stdout' = {}
  /\ pending' = {}
  /\ UNCHANGED <<then, retried, oom, reader, nextId, call, late, said>>

-----------------------------------------------------------------------------
ReaderStep == (\E line \in stdout : Reads(line)) \/ ReaderBreaks \/ EndOfOutput

ClientStep ==
  \/ Spawn \/ SpawnFails \/ ExitsEarly \/ Initialize \/ ListTools \/ Connected
  \/ Refused \/ HandshakeTimesOut \/ HandshakeRaises
  \/ CleanupReader \/ CleanupProcess

Next ==
  \/ ReaderStep \/ ClientStep
  \/ Chatters \/ Dies \/ Reaped
  \/ Invoke \/ Disconnect
  \/ \E i \in Id : Answers(i) \/ TimesOut(i)

Spec == Init /\ [][Next]_vars

\* Tasks that can run do, and wait_for keeps its timeouts; the server owes
\* nothing.
FairSpec ==
  Spec /\ WF_vars(ReaderStep) /\ WF_vars(ClientStep) /\ \A i \in Id : WF_vars(TimesOut(i))

-----------------------------------------------------------------------------
TypeOK ==
  /\ stage \in {"spawn", "settle", "init", "list", "connected", "failed", "cleanup", "closed"}
  /\ then \in {"spawn", "failed", "closed"} /\ retried \in BOOLEAN
  /\ proc \in {"none", "alive", "dead", "reaped"} /\ oom \in BOOLEAN
  /\ heard \subseteq Id /\ stdout \subseteq Line
  /\ reader \in {"none", "reading", "ended", "broken"}
  /\ nextId \in 0..MaxCalls /\ pending \subseteq Id
  /\ call \in [Id -> {"unsent", "waiting", "answer", "error", "request", "failed", "timeout"}]
  /\ late \subseteq Id /\ said \subseteq Id
  /\ \A i \in Id : call[i] = "unsent" <=> i >= nextId

\* Who waits is waited for: the key is registered and the output is read, or
\* the request came after the end of the output.  The exceptions are an
\* output that broke the reader and a client that is being closed.
WaitersAreHeeded ==
  \A i \in Waiting :
    \/ i \in pending /\ reader = "reading"
    \/ i \in late \/ reader = "broken"
    \/ stage = "cleanup" \/ proc = "none"

\* A connected client has had its handshake answered by the process it is
\* connected to, not by one an earlier attempt started.
HandshakeIsOurs ==
  [][stage = "list" /\ stage' = "connected" =>
       {nextId - 2, nextId - 1} \subseteq (heard \cap said) \cup ServerId]_vars

\* RpcPromise, with nothing promised about numbers the server uses itself.
Promise == INSTANCE RpcPromise WITH
  Call <- Id, Foreign <- ServerId,
  open <- Waiting,
  returned <- {i \in Id : call[i] \in {"answer", "error", "request"}},
  failed <- {i \in Id : call[i] \in {"failed", "timeout"}}
ImplementsPromise == Promise!Spec

\* connect comes to an end, with at most one retry, whatever the server does.
ConnectEnds == stage = "spawn" ~> stage \in {"connected", "failed", "closed"}
=============================================================================
