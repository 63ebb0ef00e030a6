---------------------------- MODULE TestSessions ----------------------------
(***************************************************************************)
(* Tests of remote servers with credentials: the session store and the     *)
(* store of one-use OAuth flows (sandbox/session.py, oauth.py), the routes *)
(* between them and the remote client (sandbox/routes.py), the provider's  *)
(* redirects, and the test dialog of one browser tab, which keeps the      *)
(* session it works with and, per item, a note for resuming after consent  *)
(* (test-tool-modal.component.ts).                                         *)
(*                                                                         *)
(* A handler is one action up to the await on a remote server or provider  *)
(* and one action after it.  Sessions and flows are numbered in the order  *)
(* of their creation; the code draws identifiers at random.                *)
(***************************************************************************)
EXTENDS Naturals, FiniteSets

CONSTANTS
  Item,             \* catalog items with a remote server
  NoItem,
  Preregistered,    \* items whose provider has no dynamic registration
  MaxSessions,      \* bound: sessions created
  MaxFlows,         \* bound: flows started
  MaxRequests       \* bound: requests of the dialog in flight

ASSUME TestSessionsAssumption ==
  /\ NoItem \notin Item /\ Preregistered \subseteq Item
  /\ MaxSessions \in Nat /\ MaxFlows \in Nat /\ MaxRequests \in Nat

VARIABLES
  entries, nextSid,     \* SessionStore
  flows,                \* states in the OAuthFlowStore
  flow, nextFlow,       \* the context of every flow that was started
  exchanging,           \* callbacks waiting for the token endpoint
  requests,             \* handlers serving the dialog, at their await
  dialog,               \* the open dialog: item, session, phase
  offered,              \* the last answer offered it to ask for consent
  busy,                 \* its buttons that wait for an answer
  polled,               \* the session its timer asks about while it waits
  resume,               \* sessionStorage: the session to resume with, by item
  revoked, taken        \* history: sessions revoked, flows taken from the store

store   == <<entries, nextSid>>
oauth   == <<flows, flow, nextFlow, exchanging>>
tab     == <<dialog, offered, busy, polled>>
browser == <<requests, tab, resume>>
vars    == <<store, oauth, browser, revoked, taken>>

-----------------------------------------------------------------------------
Sid  == 1..MaxSessions
Flow == 1..MaxFlows

\* 0 stands for no session and for a token typed by hand.
Token == [from : 0..MaxFlows, item : Item]
NoToken == [from |-> 0, item |-> NoItem]

Entry == [item : Item, token : Token \cup {NoToken}, state : 0..MaxFlows]
NoEntry == [item |-> NoItem, token |-> NoToken, state |-> 0]

Context == [item : Item, sid : Sid]
NoContext == [item |-> NoItem, sid |-> 0]

\* Requests that test a server carry the token they read; live: the dialog that
\* sent it still exists.
Req == [kind : {"connect", "poll", "invoke", "start", "submit"}, item : Item,
        sid : 0..MaxSessions, token : Token \cup {NoToken}, live : BOOLEAN]

Phase == {"connecting", "auth", "waiting", "ready", "error"}
Closed == [item |-> NoItem, sid |-> 0, phase |-> "closed"]

Init ==
  /\ entries = [s \in Sid |-> NoEntry] /\ nextSid = 1
  /\ flows = {} /\ flow = [f \in Flow |-> NoContext] /\ nextFlow = 1
  /\ exchanging = {}
  /\ requests = {} /\ dialog = Closed /\ offered = FALSE /\ busy = {} /\ polled = 0
  /\ resume = [i \in Item |-> 0]
  /\ revoked = {} /\ taken = {}

-----------------------------------------------------------------------------
(* SessionStore.  Loading an entry gives it a new deadline, so get_session  *)
(* finds whatever is there.                                                 *)

Has(s) == s # 0 /\ entries[s] # NoEntry

GetToken(s) == IF s = 0 THEN NoToken ELSE entries[s].token

\* Mutant: the new session is not bound to the item.
CreateUnbound(s, item) == [entries EXCEPT ![s] = NoEntry]

Create(s, item) == [entries EXCEPT ![s] = [NoEntry EXCEPT !.item = item]]

\* The session a handler works with: the one named, or else a new one.
Ensured(s) == IF Has(s) THEN s ELSE nextSid

WithSession(s, item) == IF Has(s) THEN entries ELSE Create(nextSid, item)

Advance(s) == nextSid' = IF Has(s) THEN nextSid ELSE nextSid + 1

Room(s) == Has(s) \/ nextSid <= MaxSessions

StoreToken(es, s, token) == [es EXCEPT ![s].token = token]

-----------------------------------------------------------------------------
(* The dialog sends requests, and their handlers start.                     *)

Request(kind, item, sid, es) ==
  [kind |-> kind, item |-> item, sid |-> sid, live |-> TRUE,
   token |-> IF sid = 0 \/ kind \in {"start", "submit"} THEN NoToken ELSE es[sid].token]

Send(r) == Cardinality(requests) < MaxRequests /\ requests' = requests \cup {r}

\* Mutant: one note for all items.
OneNote(item) == CHOOSE j \in Item : TRUE

\* ngOnInit: the note of an earlier consent is used once.
ResumeKey(item) == item

OpenDialog(item) ==
  /\ dialog = Closed
  /\ LET sid == resume[ResumeKey(item)]
     IN dialog' = [item |-> item, sid |-> sid, phase |-> "connecting"]
        /\ Send(Request("connect", item, sid, entries))
  /\ resume' = [resume EXCEPT ![ResumeKey(item)] = 0]
  /\ UNCHANGED <<store, oauth, offered, busy, polled, revoked, taken>>

RetryConnect ==
  /\ dialog.phase \in {"error", "waiting"}
  /\ dialog' = [dialog EXCEPT !.phase = "connecting"]
  /\ busy' = busy \ {"submit"} /\ polled' = 0
  /\ Send(Request("connect", dialog.item, dialog.sid, entries))
  /\ UNCHANGED <<store, oauth, offered, resume, revoked, taken>>

\* The button of the error panel that shows the form for a token.
ProvideToken ==
  /\ dialog.phase = "error" /\ offered
  /\ dialog' = [dialog EXCEPT !.phase = "auth"]
  /\ UNCHANGED <<store, oauth, requests, offered, busy, polled, resume, revoked, taken>>

\* The timer asks about the session it was started with.  A poll that finds no token
\* is a heartbeat and changes nothing.
Poll ==
  /\ dialog.phase = "waiting"
  /\ GetToken(polled) # NoToken
  /\ Send(Request("poll", dialog.item, polled, entries))
  /\ UNCHANGED <<store, oauth, tab, resume, revoked, taken>>

Invoke ==
  /\ dialog.phase = "ready"
  /\ Send(Request("invoke", dialog.item, dialog.sid, entries))
  /\ UNCHANGED <<store, oauth, tab, resume, revoked, taken>>

\* authorize_start up to the discovery of the authorization server.  The dialog
\* stays as it is: the form's own button is disabled, and nothing else.
StartOAuth ==
  /\ offered /\ (dialog.phase = "error" \/ (dialog.phase = "auth" /\ "start" \notin busy))
  /\ Room(dialog.sid)
  /\ busy' = busy \cup {"start"}
  /\ entries' = WithSession(dialog.sid, dialog.item) /\ Advance(dialog.sid)
  /\ Send(Request("start", dialog.item, Ensured(dialog.sid), entries))
  /\ UNCHANGED <<oauth, dialog, offered, polled, resume, revoked, taken>>

SubmitToken ==
  /\ dialog.phase = "auth" /\ "submit" \notin busy
  /\ busy' = busy \cup {"submit"}
  /\ Send(Request("submit", dialog.item, dialog.sid, entries))
  /\ UNCHANGED <<store, oauth, dialog, offered, polled, resume, revoked, taken>>

\* closeModal: requests under way lose their dialog, but not their effects.
Close ==
  /\ dialog # Closed
  /\ dialog' = Closed /\ offered' = FALSE /\ busy' = {} /\ polled' = 0
  /\ requests' = {[r EXCEPT !.live = FALSE] : r \in requests}
  /\ IF Has(dialog.sid)
     THEN /\ entries' = [entries EXCEPT ![dialog.sid] = NoEntry]
          /\ revoked' = revoked \cup {dialog.sid}
     ELSE UNCHANGED <<entries, revoked>>
  /\ UNCHANGED <<nextSid, oauth, resume, taken>>

-----------------------------------------------------------------------------
(* Handlers end, and the dialog that sent the request, if it still exists,  *)
(* gets the answer.                                                         *)

Answered(r, sid, phase) ==
  dialog' = IF r.live THEN [dialog EXCEPT !.sid = sid, !.phase = phase] ELSE dialog

Offers(r, values) == offered' \in IF r.live THEN values ELSE {offered}

Released(r) == busy' = IF r.live THEN busy \ {r.kind} ELSE busy

\* An answer says whether to offer credentials; a response that is lost does not.
ConnectEnds(r, outcome) ==
  CASE outcome = "works"   -> Answered(r, dialog.sid, "ready") /\ Offers(r, {FALSE})
    [] outcome = "refused" -> Answered(r, dialog.sid, "auth") /\ Offers(r, BOOLEAN)
    [] outcome = "fails"   ->
         \/ Answered(r, dialog.sid, "auth") /\ Offers(r, BOOLEAN)
         \/ Answered(r, dialog.sid, "error") /\ Offers(r, {FALSE, offered})

\* connect, invoke and poll: the server works, refuses the credentials, or
\* fails.  The badge written after a success is VerificationQueue!UserTest.
TestEnds(r, outcome) ==
  /\ r.kind \in {"connect", "poll", "invoke"}
  /\ requests' = requests \ {r}
  /\ CASE r.kind = "connect" -> ConnectEnds(r, outcome)
       [] r.kind = "poll" /\ outcome = "works" /\ dialog.phase = "waiting" ->
            Answered(r, dialog.sid, "ready") /\ UNCHANGED offered
       [] r.kind = "invoke" /\ outcome = "works" ->
            Answered(r, dialog.sid, "ready") /\ UNCHANGED offered
       [] r.kind = "invoke" /\ outcome = "refused" ->
            /\ \E phase \in {"ready", "auth"} : Answered(r, dialog.sid, phase)
            /\ UNCHANGED offered
       [] r.kind = "invoke" /\ outcome = "fails" ->
            /\ \E phase \in {"ready", dialog.phase} : Answered(r, dialog.sid, phase)
            /\ UNCHANGED offered
       [] OTHER -> UNCHANGED <<dialog, offered>>
  /\ polled' = IF dialog'.phase = "waiting" THEN polled ELSE 0
  /\ UNCHANGED <<store, oauth, busy, resume, revoked, taken>>

\* The authorization URL is built and its flow stored; the tab opens the
\* provider's page and notes the session, even when the dialog is gone.  (A closed
\* dialog then polls, too: that reads a session, changes nothing and is left out.)
StartEnds(r) ==
  /\ r.kind = "start" /\ nextFlow <= MaxFlows
  /\ requests' = requests \ {r}
  /\ flow' = [flow EXCEPT ![nextFlow] = [item |-> r.item, sid |-> r.sid]]
  /\ flows' = flows \cup {nextFlow} /\ nextFlow' = nextFlow + 1
  /\ entries' = IF Has(r.sid) THEN [entries EXCEPT ![r.sid].state = nextFlow] ELSE entries
  /\ resume' = [resume EXCEPT ![ResumeKey(r.item)] = r.sid]
  /\ Answered(r, r.sid, "waiting") /\ Released(r)
  /\ polled' = IF r.live THEN r.sid ELSE polled
  /\ UNCHANGED <<nextSid, exchanging, offered, revoked, taken>>

\* Metadata, registration or configuration is missing; the session stays.
StartFails(r) ==
  /\ r.kind = "start"
  /\ requests' = requests \ {r}
  /\ Answered(r, dialog.sid, "auth") /\ Released(r)
  /\ polled' = IF r.live THEN 0 ELSE polled
  /\ UNCHANGED <<store, oauth, offered, resume, revoked, taken>>

\* The dialog, open or not, connects again at once in the session it is told; what
\* it shows does not change yet.
SubmitEnds(r) ==
  /\ r.kind = "submit" /\ Room(r.sid)
  /\ entries' = StoreToken(WithSession(r.sid, r.item), Ensured(r.sid),
                           [from |-> 0, item |-> r.item])
  /\ Advance(r.sid)
  /\ Answered(r, Ensured(r.sid), dialog.phase) /\ Released(r)
  /\ requests' = (requests \ {r}) \cup
       {[Request("connect", r.item, Ensured(r.sid), entries') EXCEPT !.live = r.live]}
  /\ UNCHANGED <<oauth, offered, polled, resume, revoked, taken>>

SubmitFails(r) ==
  /\ r.kind = "submit"
  /\ requests' = requests \ {r}
  /\ Released(r)
  /\ UNCHANGED <<store, oauth, dialog, offered, polled, resume, revoked, taken>>

-----------------------------------------------------------------------------
(* The provider sends the browser back, once or, on a reload, again.        *)

\* The item in the path of the redirect: for providers without registration
\* the stable one, which is no item (OAuthRedirectItem).
RedirectItem(item) == IF item \in Preregistered THEN NoItem ELSE item

\* Mutant: the flow is looked up and stays in the store.
CallbackReads(f) ==
  /\ f \in flows
  /\ taken' = taken \cup {f} /\ exchanging' = exchanging \cup {f}
  /\ UNCHANGED <<store, flows, flow, nextFlow, browser, revoked>>

\* A denied consent and an unknown state change nothing.
CallbackTakes(f) ==
  /\ f \in flows
  /\ flows' = flows \ {f} /\ taken' = taken \cup {f}
  /\ exchanging' = IF flow[f].item \in {RedirectItem(flow[f].item), NoItem}
                   THEN exchanging \cup {f} ELSE exchanging
  /\ UNCHANGED <<store, flow, nextFlow, browser, revoked>>

FlowExpires(f) ==
  /\ f \in flows
  /\ flows' = flows \ {f}
  /\ UNCHANGED <<store, flow, nextFlow, exchanging, browser, revoked, taken>>

\* Mutant: every callback opens a session of its own.
ExchangeElsewhere(f) ==
  /\ f \in exchanging /\ Room(0)
  /\ exchanging' = exchanging \ {f}
  /\ entries' = StoreToken(Create(nextSid, flow[f].item), nextSid,
                           [from |-> f, item |-> flow[f].item])
  /\ Advance(0)
  /\ UNCHANGED <<flows, flow, nextFlow, browser, revoked, taken>>

\* Mutant: the token is written under the flow's session, there or not.
ExchangeRevives(f) ==
  /\ f \in exchanging
  /\ exchanging' = exchanging \ {f}
  /\ entries' = StoreToken(Create(flow[f].sid, flow[f].item), flow[f].sid,
                           [from |-> f, item |-> flow[f].item])
  /\ UNCHANGED <<nextSid, flows, flow, nextFlow, browser, revoked, taken>>

\* Mutant: the callback can run on after its token was stored.
ExchangeRepeats(f) ==
  /\ f \in exchanging /\ Room(flow[f].sid)
  /\ entries' = StoreToken(WithSession(flow[f].sid, flow[f].item), Ensured(flow[f].sid),
                           [from |-> f, item |-> flow[f].item])
  /\ Advance(flow[f].sid)
  /\ UNCHANGED <<exchanging, flows, flow, nextFlow, browser, revoked, taken>>

\* The token goes to the session of the flow or, if that is gone, to a new one.
ExchangeEnds(f) ==
  /\ f \in exchanging /\ Room(flow[f].sid)
  /\ exchanging' = exchanging \ {f}
  /\ entries' = StoreToken(WithSession(flow[f].sid, flow[f].item), Ensured(flow[f].sid),
                           [from |-> f, item |-> flow[f].item])
  /\ Advance(flow[f].sid)
  /\ UNCHANGED <<flows, flow, nextFlow, browser, revoked, taken>>

ExchangeFails(f) ==
  /\ f \in exchanging
  /\ exchanging' = exchanging \ {f}
  /\ UNCHANGED <<store, flows, flow, nextFlow, browser, revoked, taken>>

\* What a lost connection makes the dialog show, by the request that is lost.
Broken == {IF r.kind = "connect" THEN "error" ELSE "auth" :
             r \in {q \in requests : q.live /\ q.kind \in {"connect", "start"}}}

\* Both stores are in memory; the tab is not, and loses the requests it waits for.
Restart ==
  /\ entries' = [s \in Sid |-> NoEntry]
  /\ flows' = {} /\ exchanging' = {} /\ requests' = {} /\ busy' = {}
  /\ dialog' \in IF Broken = {} THEN {dialog} ELSE {[dialog EXCEPT !.phase = p] : p \in Broken}
  /\ polled' = IF dialog'.phase = "waiting" THEN polled ELSE 0
  /\ UNCHANGED <<nextSid, flow, nextFlow, offered, resume, revoked, taken>>

-----------------------------------------------------------------------------
Outcome == {"works", "refused", "fails"}

Next ==
  \/ RetryConnect \/ ProvideToken \/ Poll \/ Invoke \/ StartOAuth \/ SubmitToken \/ Close \/ Restart
  \/ \E item \in Item : OpenDialog(item)
  \/ \E r \in requests :
       \/ \E outcome \in Outcome : TestEnds(r, outcome)
       \/ StartEnds(r) \/ StartFails(r) \/ SubmitEnds(r) \/ SubmitFails(r)
  \/ \E f \in Flow : CallbackTakes(f) \/ FlowExpires(f) \/ ExchangeEnds(f) \/ ExchangeFails(f)

Spec == Init /\ [][Next]_vars

-----------------------------------------------------------------------------
TypeOK ==
  /\ entries \in [Sid -> Entry \cup {NoEntry}] /\ nextSid \in 1..(MaxSessions + 1)
  /\ flows \subseteq Flow /\ exchanging \subseteq Flow
  /\ flow \in [Flow -> Context \cup {NoContext}] /\ nextFlow \in 1..(MaxFlows + 1)
  /\ requests \subseteq Req
  /\ dialog \in [item : Item, sid : 0..MaxSessions, phase : Phase] \cup {Closed}
  /\ offered \in BOOLEAN /\ busy \subseteq {"start", "submit"} /\ polled \in 0..MaxSessions
  /\ resume \in [Item -> 0..MaxSessions]
  /\ revoked \subseteq Sid /\ taken \subseteq Flow

\* A token is only ever sent to the server of the item it was obtained for,
\* although the routes do not compare the item of a session with the item of
\* the path: dialogs come and go, notes are resumed, callbacks arrive late.
TokensStayWithTheirItem ==
  /\ \A r \in requests : r.token # NoToken => r.token.item = r.item
  /\ \A s \in Sid : entries[s].token # NoToken => entries[s].token.item = entries[s].item

\* What a callback brings lands in the session its flow was started for, or in
\* a new one when that session has gone: never in another session.
TokenLandsWhereItWasAsked ==
  \A s \in Sid : LET f == entries[s].token.from
                 IN f # 0 => flow[f].sid = s \/ entries[flow[f].sid] = NoEntry

\* A session the user closed is gone for good: no token comes back under its
\* identifier, whatever was under way when it was revoked.
RevokedStaysGone == \A s \in revoked : entries[s] = NoEntry

\* A consent is exchanged once, however often the browser repeats the redirect.
OneExchangePerConsent ==
  [][\A f \in exchanging' \ exchanging : f \notin taken]_vars

\* The session store, the flow store and the routes between them keep the promise
\* of SessionPromise: a flow that was taken and is not being exchanged is spent.
Promise == INSTANCE SessionPromise WITH
  Session <- Sid, Consent <- Flow,
  fresh <- {s \in Sid : s >= nextSid},
  bound <- [s \in Sid |-> entries[s].item],
  held <- [s \in Sid |-> entries[s].token],
  asked <- flow, spent <- taken \ exchanging
KeepsPromise == Promise!Spec

\* Once a consent given for a session has ended in a token, resuming with that
\* session finds it: what the comment on startOAuthFlow says of the note.
ResumeFindsToken ==
  \A item \in Item : \A s \in Sid :
    LET f == entries[s].token.from
    IN f # 0 /\ resume[item] # 0 /\ flow[f].sid = resume[item]
         => GetToken(resume[item]) # NoToken
=============================================================================
