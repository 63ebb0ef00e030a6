------------------------- MODULE TestSessionsProofs -------------------------
(***************************************************************************)
(* Proofs about TestSessions, for any items and any number of sessions,    *)
(* flows and requests.  What carries them: an identifier is given out once *)
(* (Numbered), so whatever a dialog, a note, a request or a flow refers to *)
(* is the session it always was or gone (Bound).                           *)
(***************************************************************************)
EXTENDS TestSessions, TLAPS

-----------------------------------------------------------------------------
(* Records.                                                                 *)

DialogType == [item : Item, sid : 0..MaxSessions, phase : Phase]

LEMMA EntryTyped ==
  /\ NoEntry.token = NoToken /\ NoEntry.item = NoItem /\ NoEntry \notin Entry
  /\ \A e \in Entry : e.item \in Item /\ e.token \in Token \cup {NoToken} /\ e.state \in 0..MaxFlows
  /\ \A i \in Item : [NoEntry EXCEPT !.item = i] \in Entry /\ [NoEntry EXCEPT !.item = i].item = i
                     /\ [NoEntry EXCEPT !.item = i].token = NoToken
<1>1. NoEntry.token = NoToken /\ NoEntry.item = NoItem
  BY DEF NoEntry
<1>2. \A e \in Entry : e.item \in Item /\ e.token \in Token \cup {NoToken} /\ e.state \in 0..MaxFlows
  BY DEF Entry
<1>3. ASSUME NEW i \in Item
      PROVE  [NoEntry EXCEPT !.item = i] \in Entry /\ [NoEntry EXCEPT !.item = i].item = i
             /\ [NoEntry EXCEPT !.item = i].token = NoToken
  <2>1. [NoEntry EXCEPT !.item = i] = [item |-> i, token |-> NoToken, state |-> 0]
    BY DEF NoEntry
  <2>2. 0 \in 0..MaxFlows
    BY TestSessionsAssumption
  <2>3. QED
    BY <2>1, <2>2 DEF Entry
<1>4. NoEntry \notin Entry
  BY <1>1, <1>2, TestSessionsAssumption
<1>5. QED
  BY <1>1, <1>2, <1>3, <1>4

LEMMA EntryKeeps ==
  ASSUME NEW e \in Entry
  PROVE  /\ \A t \in Token : [e EXCEPT !.token = t] \in Entry /\ [e EXCEPT !.token = t].item = e.item
                             /\ [e EXCEPT !.token = t].token = t
         /\ \A f \in 0..MaxFlows : [e EXCEPT !.state = f] \in Entry /\ [e EXCEPT !.state = f].item = e.item
                                   /\ [e EXCEPT !.state = f].token = e.token
  BY DEF Entry

LEMMA TokenTyped ==
  /\ \A f \in 0..MaxFlows, i \in Item : [from |-> f, item |-> i] \in Token
  /\ NoToken \notin Token /\ NoToken.from = 0
  /\ \A t \in Token : t.item \in Item /\ t.from \in 0..MaxFlows
<1>1. \A t \in Token : t.item \in Item /\ t.from \in 0..MaxFlows
  BY DEF Token
<1>2. QED
  BY <1>1, TestSessionsAssumption DEF Token, NoToken

LEMMA ReqTyped ==
  \A r \in Req : /\ r.kind \in {"connect", "poll", "invoke", "start", "submit"}
                 /\ r.item \in Item /\ r.sid \in 0..MaxSessions
                 /\ r.token \in Token \cup {NoToken} /\ r.live \in BOOLEAN
                 /\ [r EXCEPT !.live = FALSE] \in Req
                 /\ [r EXCEPT !.live = FALSE].sid = r.sid /\ [r EXCEPT !.live = FALSE].item = r.item
                 /\ [r EXCEPT !.live = FALSE].token = r.token
  BY DEF Req

LEMMA RequestTyped ==
  ASSUME NEW es \in [Sid -> Entry \cup {NoEntry}], NEW i \in Item, NEW s \in 0..MaxSessions,
         NEW k \in {"connect", "poll", "invoke", "start", "submit"}
  PROVE  /\ Request(k, i, s, es) \in Req
         /\ Request(k, i, s, es).sid = s /\ Request(k, i, s, es).item = i
         /\ Request(k, i, s, es).token = NoToken \/ (s \in Sid /\ Request(k, i, s, es).token = es[s].token)
<1> DEFINE tok == IF s = 0 \/ k \in {"start", "submit"} THEN NoToken ELSE es[s].token
<1>1. s # 0 => s \in Sid
  BY TestSessionsAssumption DEF Sid
<1>2. tok \in Token \cup {NoToken}
  BY <1>1, EntryTyped
<1>3. Request(k, i, s, es) = [kind |-> k, item |-> i, sid |-> s, live |-> TRUE, token |-> tok]
  BY DEF Request
<1>4. [kind |-> k, item |-> i, sid |-> s, live |-> TRUE, token |-> tok] \in Req
  BY <1>2 DEF Req
<1>5. QED
  BY <1>1, <1>3, <1>4

\* The connection the dialog asks for once a token typed by hand has been stored.
Reconnect(i, s, es, b) == [Request("connect", i, s, es) EXCEPT !.live = b]

LEMMA ReconnectTyped ==
  ASSUME NEW es \in [Sid -> Entry \cup {NoEntry}], NEW i \in Item, NEW s \in 0..MaxSessions, NEW b \in BOOLEAN
  PROVE  /\ Reconnect(i, s, es, b) \in Req /\ Reconnect(i, s, es, b).sid = s
         /\ Reconnect(i, s, es, b).item = i /\ Reconnect(i, s, es, b).kind = "connect"
         /\ Reconnect(i, s, es, b).live = b
         /\ \/ Reconnect(i, s, es, b).token = NoToken
            \/ s \in Sid /\ Reconnect(i, s, es, b).token = es[s].token
<1>1. /\ Request("connect", i, s, es) \in Req /\ Request("connect", i, s, es).kind = "connect"
      /\ Request("connect", i, s, es).sid = s /\ Request("connect", i, s, es).item = i
      /\ \/ Request("connect", i, s, es).token = NoToken
         \/ s \in Sid /\ Request("connect", i, s, es).token = es[s].token
  <2>1. Request("connect", i, s, es).kind = "connect"
    BY DEF Request
  <2>2. QED
    BY <2>1, RequestTyped
<1>2. \A r \in Req : LET d == [r EXCEPT !.live = b]
                     IN d \in Req /\ d.kind = r.kind /\ d.sid = r.sid /\ d.item = r.item
                        /\ d.token = r.token /\ d.live = b
  BY DEF Req
<1>3. QED
  BY <1>1, <1>2 DEF Reconnect

LEMMA DialogTyped ==
  /\ Closed \notin DialogType /\ Closed.item = NoItem /\ Closed.phase = "closed" /\ Closed.sid = 0
  /\ \A d \in DialogType : d.item \in Item /\ d.sid \in 0..MaxSessions /\ d.phase \in Phase
<1>1. "closed" \notin Phase
  BY DEF Phase
<1>2. QED
  BY <1>1 DEF DialogType, Closed

LEMMA DialogMoves ==
  ASSUME NEW d \in DialogType, NEW s \in 0..MaxSessions, NEW p \in Phase
  PROVE  /\ [d EXCEPT !.sid = s, !.phase = p] \in DialogType
         /\ [d EXCEPT !.sid = s, !.phase = p].item = d.item /\ [d EXCEPT !.sid = s, !.phase = p].sid = s
  BY DEF DialogType

LEMMA DialogTurns ==
  ASSUME NEW d \in DialogType, NEW p \in Phase
  PROVE  /\ [d EXCEPT !.phase = p] \in DialogType
         /\ [d EXCEPT !.phase = p].item = d.item /\ [d EXCEPT !.phase = p].sid = d.sid
  BY DEF DialogType

LEMMA DialogOpens ==
  ASSUME NEW i \in Item, NEW s \in 0..MaxSessions
  PROVE  [item |-> i, sid |-> s, phase |-> "connecting"] \in DialogType
<1>1. "connecting" \in Phase
  BY DEF Phase
<1>2. QED
  BY <1>1 DEF DialogType

-----------------------------------------------------------------------------
(* What the helpers of the store return.                                    *)

LEMMA SessionFacts ==
  ASSUME TypeOK, NEW s \in 0..MaxSessions, NEW i \in Item, Room(s)
  PROVE  /\ Ensured(s) \in Sid
         /\ WithSession(s, i) \in [Sid -> Entry \cup {NoEntry}]
         /\ WithSession(s, i)[Ensured(s)] \in Entry
         /\ \A t \in Sid : t # Ensured(s) => WithSession(s, i)[t] = entries[t]
         /\ Has(s) => s \in Sid /\ Ensured(s) = s /\ WithSession(s, i)[s] = entries[s]
         /\ ~Has(s) => /\ Ensured(s) = nextSid /\ nextSid \in Sid
                       /\ WithSession(s, i)[nextSid].item = i
                       /\ WithSession(s, i)[nextSid].token = NoToken
<1>1. CASE Has(s)
  <2>1. s \in Sid /\ Ensured(s) = s /\ WithSession(s, i) = entries
    BY <1>1, TestSessionsAssumption DEF Has, Ensured, WithSession, Sid
  <2>2. QED
    BY <1>1, <2>1 DEF TypeOK, Has
<1>2. CASE ~Has(s)
  <2>1. nextSid \in Sid /\ Ensured(s) = nextSid
    BY <1>2, TestSessionsAssumption DEF Room, Ensured, TypeOK, Sid
  <2>2. WithSession(s, i) = [entries EXCEPT ![nextSid] = [NoEntry EXCEPT !.item = i]]
    BY <1>2 DEF WithSession, Create
  <2>3. QED
    BY <1>2, <2>1, <2>2, EntryTyped DEF TypeOK
<1>3. QED
  BY <1>1, <1>2

LEMMA StoreTokenFacts ==
  ASSUME NEW es \in [Sid -> Entry \cup {NoEntry}], NEW s \in Sid, es[s] \in Entry, NEW t \in Token
  PROVE  /\ StoreToken(es, s, t) \in [Sid -> Entry \cup {NoEntry}]
         /\ StoreToken(es, s, t)[s] \in Entry
         /\ StoreToken(es, s, t)[s].item = es[s].item /\ StoreToken(es, s, t)[s].token = t
         /\ \A u \in Sid : u # s => StoreToken(es, s, t)[u] = es[u]
<1>1. StoreToken(es, s, t) = [es EXCEPT ![s] = [es[s] EXCEPT !.token = t]]
  BY DEF StoreToken
<1>2. QED
  BY <1>1, EntryKeeps

LEMMA AdvanceTyped ==
  ASSUME TypeOK, NEW s \in 0..MaxSessions, Room(s), Advance(s)
  PROVE  nextSid' \in 1..(MaxSessions + 1) /\ nextSid' = (IF Has(s) THEN nextSid ELSE nextSid + 1)
  BY TestSessionsAssumption DEF TypeOK, Room, Advance

-----------------------------------------------------------------------------
(* Types.                                                                   *)

\* A request whose dialog still exists is about the dialog's item.
LiveHasDialog == \A r \in requests : r.live => dialog # Closed /\ dialog.item = r.item

\* A consent is started for a session, and a flow whose code is being exchanged has
\* a context.
StartsBound ==
  /\ \A r \in requests : r.kind = "start" => r.sid # 0
  /\ \A f \in flows \cup exchanging : flow[f] \in Context

LEMMA AnsweredTyped ==
  ASSUME TypeOK, LiveHasDialog, NEW r \in requests, NEW s \in 0..MaxSessions, NEW p \in Phase, Answered(r, s, p)
  PROVE  /\ dialog' \in DialogType \cup {Closed}
         /\ dialog' = Closed <=> dialog = Closed
         /\ dialog'.item = dialog.item
         /\ dialog'.sid = dialog.sid \/ (r.live /\ dialog'.sid = s /\ dialog.item = r.item)
<1>1. CASE r.live
  <2>1. dialog \in DialogType /\ dialog.item = r.item /\ dialog' = [dialog EXCEPT !.sid = s, !.phase = p]
    BY <1>1 DEF Answered, TypeOK, DialogType, LiveHasDialog
  <2>2. [dialog EXCEPT !.sid = s, !.phase = p] \in DialogType
        /\ [dialog EXCEPT !.sid = s, !.phase = p].item = dialog.item
        /\ [dialog EXCEPT !.sid = s, !.phase = p].sid = s
    BY <2>1 DEF DialogType
  <2>3. dialog # Closed /\ dialog' # Closed
    BY <2>1, <2>2, DialogTyped
  <2>4. QED
    BY <1>1, <2>1, <2>2, <2>3
<1>2. CASE ~r.live
  BY <1>2 DEF Answered, TypeOK, DialogType
<1>3. QED
  BY <1>1, <1>2

\* The three requests that test a server, and what becomes of the dialog.
LEMMA TestEndsCases ==
  ASSUME NEW r, NEW outcome \in Outcome, TestEnds(r, outcome)
  PROVE  \/ dialog' = dialog /\ offered' = offered
         \/ /\ \E p \in {"ready", "auth", "error", dialog.phase} : Answered(r, dialog.sid, p)
            /\ offered' = offered \/ offered' \in BOOLEAN
<1>1. CASE r.kind = "connect"
  <2>1. ConnectEnds(r, outcome)
    BY <1>1 DEF TestEnds
  <2>2. CASE outcome = "works"
    BY <2>1, <2>2 DEF ConnectEnds, Offers
  <2>3. CASE outcome = "refused"
    BY <2>1, <2>3 DEF ConnectEnds, Offers
  <2>4. CASE outcome = "fails"
    BY <2>1, <2>4 DEF ConnectEnds, Offers
  <2>5. QED
    BY <2>2, <2>3, <2>4 DEF Outcome
<1>2. CASE r.kind = "poll"
  <2>1. CASE outcome = "works" /\ dialog.phase = "waiting"
    BY <1>2, <2>1 DEF TestEnds
  <2>2. CASE ~(outcome = "works" /\ dialog.phase = "waiting")
    BY <1>2, <2>2 DEF TestEnds
  <2>3. QED
    BY <2>1, <2>2
<1>3. CASE r.kind = "invoke"
  <2>1. CASE outcome = "works"
    BY <1>3, <2>1 DEF TestEnds
  <2>2. CASE outcome = "refused"
    BY <1>3, <2>2 DEF TestEnds
  <2>3. CASE outcome = "fails"
    BY <1>3, <2>3 DEF TestEnds
  <2>4. QED
    BY <2>1, <2>2, <2>3 DEF Outcome
<1>4. QED
  BY <1>1, <1>2, <1>3 DEF TestEnds

LEMMA TestEndsFacts ==
  ASSUME TypeOK, LiveHasDialog, NEW r \in requests, NEW outcome \in Outcome, TestEnds(r, outcome)
  PROVE  /\ dialog' \in DialogType \cup {Closed}
         /\ dialog' = Closed <=> dialog = Closed
         /\ dialog'.item = dialog.item /\ dialog'.sid = dialog.sid
         /\ requests' = requests \ {r}
         /\ UNCHANGED <<store, oauth, resume, revoked, taken>>
<1>1. requests' = requests \ {r} /\ UNCHANGED <<store, oauth, resume, revoked, taken>>
  BY DEF TestEnds
<1>2. dialog' = dialog \/ (r.live /\ \E p \in Phase \cup {dialog.phase} : Answered(r, dialog.sid, p))
  <2>1. \A p : Answered(r, dialog.sid, p) => dialog' = dialog \/ (r.live /\ Answered(r, dialog.sid, p))
    BY DEF Answered
  <2>2. "ready" \in Phase /\ "auth" \in Phase /\ "error" \in Phase
    BY DEF Phase
  <2>3. dialog' = dialog \/ \E p \in Phase \cup {dialog.phase} : Answered(r, dialog.sid, p)
    BY <2>2, TestEndsCases
  <2>4. QED
    BY <2>1, <2>3, Zenon
<1>3. CASE dialog' = dialog
  BY <1>1, <1>3 DEF TypeOK, DialogType
<1>4. CASE r.live /\ \E p \in Phase \cup {dialog.phase} : Answered(r, dialog.sid, p)
  <2>1. dialog \in DialogType
    BY <1>4 DEF LiveHasDialog, TypeOK, DialogType
  <2>2. dialog.sid \in 0..MaxSessions /\ dialog.phase \in Phase
    BY <2>1, DialogTyped
  <2>3. QED
    BY <1>1, <1>4, <2>2, AnsweredTyped
<1>5. QED
  BY <1>2, <1>3, <1>4

\* What a dialog shows besides its item, its session and its phase.
TabTyped == offered \in BOOLEAN /\ busy \subseteq {"start", "submit"} /\ polled \in 0..MaxSessions

LEMMA TabStep ==
  TypeOK /\ [Next]_vars => TabTyped'
<1>1. SUFFICES ASSUME TypeOK, [Next]_vars PROVE TabTyped'
  OBVIOUS
<1>a. TabTyped /\ 0 \in 0..MaxSessions /\ requests \subseteq Req
  BY <1>1, TestSessionsAssumption DEF TypeOK, TabTyped
<1>2. ASSUME UNCHANGED <<offered, busy, polled>> PROVE TabTyped'
  BY <1>2, <1>a DEF TabTyped
<1>3. ASSUME NEW item \in Item, OpenDialog(item) PROVE TabTyped'
  BY <1>2, <1>3 DEF OpenDialog
<1>4. CASE RetryConnect
  BY <1>4, <1>a DEF RetryConnect, TabTyped
<1>5. CASE ProvideToken \/ Poll \/ Invoke
  BY <1>2, <1>5 DEF ProvideToken, Poll, Invoke, tab
<1>6. CASE StartOAuth \/ SubmitToken
  BY <1>6, <1>a DEF StartOAuth, SubmitToken, TabTyped
<1>7. CASE Close \/ Restart
  BY <1>7, <1>a DEF Close, Restart, TabTyped
<1>8. ASSUME NEW r \in requests, NEW outcome \in Outcome, TestEnds(r, outcome) PROVE TabTyped'
  <2>1. offered' \in BOOLEAN
    BY <1>8, <1>a, TestEndsCases DEF TabTyped
  <2>2. busy' = busy /\ polled' \in {0, polled}
    BY <1>8 DEF TestEnds
  <2>3. QED
    BY <1>a, <2>1, <2>2 DEF TabTyped
<1>9. ASSUME NEW r \in requests, StartEnds(r) \/ StartFails(r) \/ SubmitEnds(r) \/ SubmitFails(r)
      PROVE  TabTyped'
  <2>1. r.sid \in 0..MaxSessions
    BY <1>9, <1>a, ReqTyped
  <2>2. offered' = offered /\ busy' \subseteq busy /\ polled' \in {0, r.sid, polled}
    BY <1>9 DEF StartEnds, StartFails, SubmitEnds, SubmitFails, Released
  <2>3. QED
    BY <1>a, <2>1, <2>2 DEF TabTyped
<1>10. ASSUME NEW f \in Flow, CallbackTakes(f) \/ FlowExpires(f) \/ ExchangeEnds(f) \/ ExchangeFails(f)
       PROVE  TabTyped'
  BY <1>2, <1>10 DEF CallbackTakes, FlowExpires, ExchangeEnds, ExchangeFails, browser, tab
<1>11. CASE UNCHANGED vars
  BY <1>2, <1>11 DEF vars, browser, tab
<1>12. QED
  BY <1>1, <1>3, <1>4, <1>5, <1>6, <1>7, <1>8, <1>9, <1>10, <1>11 DEF Next

LEMMA SendTyped ==
  ASSUME TypeOK, NEW k \in {"connect", "poll", "invoke", "start", "submit"}, NEW i \in Item,
         NEW s \in 0..MaxSessions, Send(Request(k, i, s, entries))
  PROVE  /\ requests' \subseteq Req
         /\ \A r \in requests' : r \in requests \/ (r.item = i /\ r.sid = s)
<1>1. entries \in [Sid -> Entry \cup {NoEntry}]
  BY DEF TypeOK
<1>2. Request(k, i, s, entries) \in Req /\ Request(k, i, s, entries).item = i /\ Request(k, i, s, entries).sid = s
  BY <1>1, RequestTyped
<1>3. QED
  BY <1>2 DEF Send, TypeOK

\* The handlers' halves, the dialog and the restart keep the types.
LEMMA TypeStep ==
  TypeOK /\ LiveHasDialog /\ StartsBound /\ [Next]_vars => TypeOK' /\ LiveHasDialog'
<1>1. SUFFICES ASSUME TypeOK, LiveHasDialog, StartsBound, [Next]_vars PROVE TypeOK' /\ LiveHasDialog'
  OBVIOUS
<1> USE TestSessionsAssumption
<1>a. dialog \in DialogType \cup {Closed} /\ requests \subseteq Req /\ resume \in [Item -> 0..MaxSessions]
      /\ entries \in [Sid -> Entry \cup {NoEntry}]
      /\ TabTyped'
  BY <1>1, TabStep DEF TypeOK, DialogType
<1>b. ASSUME dialog # Closed
      PROVE  dialog \in DialogType /\ dialog.item \in Item /\ dialog.sid \in 0..MaxSessions
  BY <1>a, <1>b, DialogTyped
<1>2. ASSUME NEW item \in Item, OpenDialog(item) PROVE TypeOK' /\ LiveHasDialog'
  <2>1. /\ dialog' = [item |-> item, sid |-> resume[item], phase |-> "connecting"]
        /\ Send(Request("connect", item, resume[item], entries))
        /\ resume' = [resume EXCEPT ![item] = 0]
    BY <1>2 DEF OpenDialog, ResumeKey
  <2>2. resume[item] \in 0..MaxSessions
    BY <1>a
  <2>3. dialog' \in DialogType /\ dialog'.item = item /\ resume' \in [Item -> 0..MaxSessions]
    <3>1. resume' \in [Item -> 0..MaxSessions]
      BY <1>a, <2>1
    <3>2. dialog' \in DialogType /\ dialog'.item = item
      BY <2>1, <2>2, DialogOpens
    <3>3. QED
      BY <3>1, <3>2
  <2>4. requests' \subseteq Req /\ \A r \in requests' : r \in requests \/ r.item = item
    BY <1>1, <2>1, <2>2, SendTyped
  <2>5. \A r \in requests : ~r.live
    BY <1>1, <1>2, <1>a, ReqTyped DEF LiveHasDialog, OpenDialog
  <2>6. LiveHasDialog'
    BY <2>3, <2>4, <2>5, DialogTyped DEF LiveHasDialog
  <2>7. QED
    BY <1>1, <1>a, <1>2, <2>3, <2>4, <2>6 DEF TabTyped, OpenDialog, TypeOK, DialogType, store, oauth
<1>3. CASE RetryConnect
  <2>1. dialog # Closed
    BY <1>3, DialogTyped DEF RetryConnect
  <2>2. dialog' \in DialogType /\ dialog'.item = dialog.item
    BY <1>3, <1>b, <2>1, DialogTurns DEF RetryConnect, Phase
  <2>3. requests' \subseteq Req /\ \A r \in requests' : r \in requests \/ r.item = dialog.item
    BY <1>1, <1>3, <1>b, <2>1, SendTyped DEF RetryConnect
  <2>4. LiveHasDialog'
    BY <1>1, <2>2, <2>3, DialogTyped DEF LiveHasDialog
  <2>5. QED
    BY <1>1, <1>a, <1>3, <2>2, <2>3, <2>4 DEF TabTyped, RetryConnect, TypeOK, DialogType, store, oauth
<1>4. ASSUME Poll \/ Invoke PROVE TypeOK' /\ LiveHasDialog'
  <2>1. dialog # Closed /\ polled \in 0..MaxSessions
    BY <1>1, <1>4, DialogTyped DEF Poll, Invoke, TypeOK
  <2>2. requests' \subseteq Req /\ \A r \in requests' : r \in requests \/ r.item = dialog.item
    BY <1>1, <1>4, <1>b, <2>1, SendTyped DEF Poll, Invoke
  <2>3. LiveHasDialog'
    BY <1>1, <1>4, <2>1, <2>2 DEF LiveHasDialog, Poll, Invoke, tab
  <2>4. QED
    BY <1>1, <1>a, <1>4, <2>2, <2>3 DEF TabTyped, Poll, Invoke, TypeOK, store, oauth, tab
<1>p. CASE ProvideToken
  <2>1. dialog # Closed
    BY <1>p, DialogTyped DEF ProvideToken
  <2>2. dialog' \in DialogType /\ dialog'.item = dialog.item
    BY <1>p, <1>b, <2>1, DialogTurns DEF ProvideToken, Phase
  <2>3. LiveHasDialog'
    BY <1>1, <1>p, <2>2, DialogTyped DEF LiveHasDialog, ProvideToken
  <2>4. QED
    BY <1>1, <1>a, <1>p, <2>2, <2>3 DEF ProvideToken, TabTyped, TypeOK, DialogType, store, oauth
<1>5. CASE StartOAuth
  <2>1. dialog # Closed
    BY <1>5, DialogTyped DEF StartOAuth
  <2>2. dialog' \in DialogType /\ dialog'.item = dialog.item
    BY <1>5, <1>b, <2>1 DEF StartOAuth
  <2>3. Ensured(dialog.sid) \in 0..MaxSessions /\ entries' \in [Sid -> Entry \cup {NoEntry}]
        /\ nextSid' \in 1..(MaxSessions + 1)
    BY <1>1, <1>5, <1>b, <2>1, SessionFacts, AdvanceTyped DEF StartOAuth, Sid
  <2>4. requests' \subseteq Req /\ \A r \in requests' : r \in requests \/ r.item = dialog.item
    BY <1>1, <1>5, <1>b, <2>1, <2>3, SendTyped DEF StartOAuth
  <2>5. LiveHasDialog'
    BY <1>1, <2>2, <2>4, DialogTyped DEF LiveHasDialog
  <2>6. QED
    BY <1>1, <1>a, <1>5, <2>2, <2>3, <2>4, <2>5 DEF TabTyped, StartOAuth, TypeOK, DialogType, oauth
<1>6. CASE SubmitToken
  <2>1. dialog # Closed
    BY <1>6, DialogTyped DEF SubmitToken
  <2>2. dialog' \in DialogType /\ dialog'.item = dialog.item
    BY <1>6, <1>b, <2>1 DEF SubmitToken
  <2>3. requests' \subseteq Req /\ \A r \in requests' : r \in requests \/ r.item = dialog.item
    BY <1>1, <1>6, <1>b, <2>1, SendTyped DEF SubmitToken
  <2>4. LiveHasDialog'
    BY <1>1, <2>2, <2>3, DialogTyped DEF LiveHasDialog
  <2>5. QED
    BY <1>1, <1>a, <1>6, <2>2, <2>3, <2>4 DEF TabTyped, SubmitToken, TypeOK, DialogType, store, oauth
<1>7. CASE Close
  <2>1. requests' \subseteq Req /\ \A r \in requests' : ~r.live
    <3>1. \A r \in Req : [r EXCEPT !.live = FALSE].live = FALSE
      BY DEF Req
    <3>2. requests' = {[r EXCEPT !.live = FALSE] : r \in requests}
      BY <1>7 DEF Close
    <3>3. QED
      BY <1>a, <3>1, <3>2, ReqTyped
  <2>2. entries' \in [Sid -> Entry \cup {NoEntry}] /\ revoked' \subseteq Sid
    <3>1. Has(dialog.sid) => dialog.sid \in Sid
      BY <1>7, <1>b DEF Has, Sid, Close
    <3>2. QED
      BY <1>1, <1>7, <1>a, <3>1 DEF Close, TypeOK
  <2>3. LiveHasDialog'
    BY <2>1 DEF LiveHasDialog
  <2>4. QED
    BY <1>1, <1>a, <1>7, <2>1, <2>2, <2>3 DEF TabTyped, Close, TypeOK, oauth
<1>8. ASSUME NEW r \in requests, NEW outcome \in Outcome, TestEnds(r, outcome) PROVE TypeOK' /\ LiveHasDialog'
  BY <1>1, <1>a, <1>8, TestEndsFacts DEF TabTyped, TypeOK, LiveHasDialog, DialogType, store, oauth
<1>c. ASSUME NEW r \in requests, NEW s \in 0..MaxSessions, NEW p \in Phase, Answered(r, s, p)
      PROVE  /\ dialog' \in DialogType \cup {Closed}
             /\ \A q \in requests : q.live => dialog' # Closed /\ dialog'.item = q.item
             /\ r.live => dialog' # Closed /\ dialog'.item = r.item
  <2>1. dialog' \in DialogType \cup {Closed} /\ (dialog' = Closed <=> dialog = Closed)
        /\ dialog'.item = dialog.item
    BY <1>1, <1>c, AnsweredTyped
  <2>2. \A q \in requests : q.live => dialog' # Closed /\ dialog'.item = q.item
    BY <1>1, <2>1, Zenon DEF LiveHasDialog
  <2>3. QED
    BY <2>1, <2>2, Zenon
<1>d. ASSUME NEW r \in requests
      PROVE  r.item \in Item /\ r.sid \in 0..MaxSessions /\ requests \ {r} \subseteq Req
  BY <1>a, <1>d, ReqTyped
<1>e. \A p \in {"waiting", "auth", "connecting"} : p \in Phase
  BY DEF Phase
<1>f. dialog # Closed => dialog.sid \in 0..MaxSessions
  BY <1>b
<1>g. dialog.sid \in 0..MaxSessions
  BY <1>f, DialogTyped
<1>9. ASSUME NEW r \in requests, StartEnds(r) PROVE TypeOK' /\ LiveHasDialog'
  <2>1. nextFlow \in Flow
    BY <1>1, <1>9 DEF StartEnds, TypeOK, Flow
  <2>2. dialog' \in DialogType \cup {Closed} /\ LiveHasDialog'
    <3>1. Answered(r, r.sid, "waiting") /\ requests' = requests \ {r}
      BY <1>9 DEF StartEnds
    <3>2. requests' \subseteq Req /\ \A q \in requests' : q \in requests
      BY <1>d, <3>1
    <3>3. r.sid \in 0..MaxSessions /\ "waiting" \in Phase
      BY <1>d, <1>e
    <3>4. dialog' \in DialogType \cup {Closed}
          /\ \A q \in requests : q.live => dialog' # Closed /\ dialog'.item = q.item
      BY <1>c, <3>1, <3>3
    <3>5. QED
      BY <3>2, <3>4, Zenon DEF LiveHasDialog
  <2>3. entries' \in [Sid -> Entry \cup {NoEntry}]
    <3>1. CASE Has(r.sid)
      <4>1. r.sid \in Sid /\ entries[r.sid] \in Entry
        BY <1>a, <1>d, <3>1 DEF Has, Sid
      <4>2. [entries[r.sid] EXCEPT !.state = nextFlow] \in Entry
        BY <2>1, <4>1, EntryKeeps DEF Flow
      <4>3. entries' = [entries EXCEPT ![r.sid] = [entries[r.sid] EXCEPT !.state = nextFlow]]
        BY <1>9, <3>1 DEF StartEnds
      <4>4. QED
        BY <1>a, <4>1, <4>2, <4>3
    <3>2. CASE ~Has(r.sid)
      BY <1>9, <1>a, <3>2 DEF StartEnds
    <3>3. QED
      BY <3>1, <3>2
  <2>4. flow' \in [Flow -> Context \cup {NoContext}]
    <3>1. r.sid # 0
      BY <1>1, <1>9 DEF StartsBound, StartEnds
    <3>2. [item |-> r.item, sid |-> r.sid] \in Context
      BY <1>d, <3>1 DEF Context, Sid
    <3>3. QED
      BY <1>1, <1>9, <2>1, <3>2 DEF StartEnds, TypeOK
  <2>5. resume' \in [Item -> 0..MaxSessions]
    BY <1>9, <1>a, <1>d DEF StartEnds, ResumeKey
  <2>6. flows' \subseteq Flow /\ nextFlow' \in 1..(MaxFlows + 1) /\ requests' \subseteq Req
    BY <1>1, <1>9, <1>d, <2>1 DEF StartEnds, TypeOK, Flow
  <2>7. QED
    BY <1>1, <1>a, <1>9, <2>2, <2>3, <2>4, <2>5, <2>6 DEF TabTyped, StartEnds, TypeOK, DialogType
<1>10. ASSUME NEW r \in requests, StartFails(r) PROVE TypeOK' /\ LiveHasDialog'
  <2>1. Answered(r, dialog.sid, "auth") /\ requests' = requests \ {r}
        /\ UNCHANGED <<store, oauth, resume, revoked, taken>>
    BY <1>10 DEF StartFails
  <2>2. dialog' \in DialogType \cup {Closed} /\ LiveHasDialog'
    <3>1. requests' \subseteq Req /\ \A q \in requests' : q \in requests
      BY <1>d, <2>1
    <3>2. "auth" \in Phase
      BY <1>e
    <3>3. dialog' \in DialogType \cup {Closed}
          /\ \A q \in requests : q.live => dialog' # Closed /\ dialog'.item = q.item
      BY <1>c, <1>g, <2>1, <3>2
    <3>4. QED
      BY <3>1, <3>3, Zenon DEF LiveHasDialog
  <2>3. QED
    BY <1>1, <1>a, <1>d, <2>1, <2>2 DEF TabTyped, TypeOK, DialogType, store, oauth
<1>s. ASSUME NEW r \in requests, SubmitFails(r) PROVE TypeOK' /\ LiveHasDialog'
  <2>1. requests' = requests \ {r} /\ dialog' = dialog
        /\ UNCHANGED <<store, oauth, resume, revoked, taken>>
    BY <1>s DEF SubmitFails
  <2>2. LiveHasDialog'
    BY <1>1, <2>1 DEF LiveHasDialog
  <2>3. QED
    BY <1>1, <1>a, <1>d, <2>1, <2>2 DEF TabTyped, TypeOK, store, oauth
<1>11. ASSUME NEW r \in requests, SubmitEnds(r) PROVE TypeOK' /\ LiveHasDialog'
  <2> DEFINE es == WithSession(r.sid, r.item)  n == Ensured(r.sid)  t == [from |-> 0, item |-> r.item]
             q0 == Reconnect(r.item, n, entries', r.live)
  <2>1. /\ Room(r.sid) /\ Advance(r.sid) /\ entries' = StoreToken(es, n, t)
        /\ Answered(r, n, dialog.phase)
        /\ requests' = (requests \ {r}) \cup {q0}
        /\ UNCHANGED <<oauth, resume, revoked, taken>>
    BY <1>11 DEF SubmitEnds, Reconnect
  <2>2. n \in Sid /\ es \in [Sid -> Entry \cup {NoEntry}] /\ es[n] \in Entry
    BY <1>1, <1>d, <2>1, SessionFacts
  <2>3. t \in Token
    BY <1>d, TokenTyped
  <2>4. entries' \in [Sid -> Entry \cup {NoEntry}]
    BY <2>1, <2>2, <2>3, StoreTokenFacts
  <2>5. n \in 0..MaxSessions
    BY <2>2 DEF Sid
  <2>6. q0 \in Req /\ q0.item = r.item /\ q0.live = r.live
    <3>1. r.item \in Item /\ r.live \in BOOLEAN
      BY <1>a, ReqTyped
    <3>2. QED
      BY <2>4, <2>5, <3>1, ReconnectTyped
  <2> HIDE DEF q0
  <2>7. requests' \subseteq Req /\ \A q \in requests' : q \in requests \/ q = q0
    BY <1>d, <2>1, <2>6
  <2>8. dialog' \in DialogType \cup {Closed} /\ LiveHasDialog'
    <3>1. CASE r.live
      <4>1. dialog.phase \in Phase
        BY <1>1, <1>b, <3>1, DialogTyped DEF LiveHasDialog
      <4>2. /\ dialog' \in DialogType \cup {Closed}
            /\ \A q \in requests : q.live => dialog' # Closed /\ dialog'.item = q.item
            /\ dialog' # Closed /\ dialog'.item = r.item
        BY <1>c, <2>1, <2>5, <3>1, <4>1
      <4>3. QED
        BY <2>6, <2>7, <4>2, Zenon DEF LiveHasDialog
    <3>2. CASE ~r.live
      <4>1. dialog' = dialog
        BY <2>1, <3>2 DEF Answered
      <4>2. QED
        BY <1>1, <1>a, <2>6, <2>7, <3>2, <4>1, Zenon DEF LiveHasDialog
    <3>3. QED
      BY <3>1, <3>2
  <2>9. nextSid' \in 1..(MaxSessions + 1)
    BY <1>1, <1>d, <2>1, AdvanceTyped
  <2>10. QED
    BY <1>1, <1>a, <2>1, <2>4, <2>7, <2>8, <2>9 DEF TabTyped, TypeOK, DialogType, oauth
<1>12. ASSUME NEW f \in Flow, CallbackTakes(f) \/ FlowExpires(f) \/ ExchangeFails(f)
       PROVE  TypeOK' /\ LiveHasDialog'
  <2>1. UNCHANGED <<store, flow, nextFlow, browser, revoked>>
        /\ flows' \subseteq flows /\ exchanging' \subseteq exchanging \cup {f} /\ taken' \subseteq taken \cup {f}
    BY <1>12 DEF CallbackTakes, FlowExpires, ExchangeFails
  <2>2. QED
    BY <1>1, <1>a, <2>1 DEF TabTyped, TypeOK, LiveHasDialog, store, browser, tab
<1>13. ASSUME NEW f \in Flow, ExchangeEnds(f) PROVE TypeOK' /\ LiveHasDialog'
  <2> DEFINE c == flow[f]  es == WithSession(c.sid, c.item)  n == Ensured(c.sid)
             t == [from |-> f, item |-> c.item]
  <2>1. /\ f \in exchanging /\ exchanging' = exchanging \ {f} /\ Room(c.sid) /\ Advance(c.sid)
        /\ entries' = StoreToken(es, n, t)
        /\ UNCHANGED <<flows, flow, nextFlow, browser, revoked, taken>>
    BY <1>13 DEF ExchangeEnds
  <2>2. c.item \in Item /\ c.sid \in 0..MaxSessions
    BY <1>1, <2>1 DEF StartsBound, Context, Sid
  <2>3. n \in Sid /\ es \in [Sid -> Entry \cup {NoEntry}] /\ es[n] \in Entry
    BY <1>1, <2>1, <2>2, SessionFacts
  <2>4. t \in Token
    BY <2>2, TokenTyped DEF Flow
  <2>5. entries' \in [Sid -> Entry \cup {NoEntry}]
    BY <2>1, <2>3, <2>4, StoreTokenFacts
  <2>6. nextSid' \in 1..(MaxSessions + 1)
    BY <1>1, <2>1, <2>2, AdvanceTyped
  <2>7. QED
    BY <1>1, <1>a, <2>1, <2>5, <2>6 DEF TabTyped, TypeOK, LiveHasDialog, browser, tab
<1>14. CASE Restart
  <2>1. entries' \in [Sid -> Entry \cup {NoEntry}]
    BY <1>14 DEF Restart
  <2>2. dialog' \in DialogType \cup {Closed}
    <3>1. "error" \in Phase /\ "auth" \in Phase
      BY DEF Phase
    <3>2. CASE Broken = {}
      BY <1>14, <1>a, <3>2 DEF Restart
    <3>3. CASE Broken # {}
      <4>1. dialog # Closed
        BY <1>1, <3>3 DEF Broken, LiveHasDialog
      <4>2. Broken \subseteq Phase
        BY <3>1 DEF Broken
      <4>3. PICK p \in Broken : dialog' = [dialog EXCEPT !.phase = p]
        BY <1>14, <3>3 DEF Restart
      <4>4. QED
        BY <1>b, <4>1, <4>2, <4>3, DialogTurns
    <3>4. QED
      BY <3>2, <3>3
  <2>3. QED
    BY <1>1, <1>a, <1>14, <2>1, <2>2 DEF TabTyped, Restart, TypeOK, DialogType, LiveHasDialog
<1>15. CASE UNCHANGED vars
  BY <1>1, <1>15 DEF vars, store, oauth, browser, tab, TypeOK, LiveHasDialog
<1>16. QED
  BY <1>1, <1>2, <1>3, <1>4, <1>5, <1>6, <1>7, <1>8, <1>9, <1>10, <1>11, <1>12, <1>13, <1>14, <1>15, <1>p, <1>s DEF Next

-----------------------------------------------------------------------------
(* Identifiers are given out once.                                          *)

StoreNumbered ==
  /\ \A s \in Sid : entries[s] # NoEntry => s < nextSid
  /\ \A s \in revoked : s < nextSid

FlowsNumbered ==
  /\ \A f \in flows \cup exchanging \cup taken : f < nextFlow
  /\ \A f \in Flow : f < nextFlow => flow[f] \in Context /\ flow[f].sid < nextSid
  /\ flows \cap taken = {}

\* What goes by the identifier s is a session of the item, or gone.
Refs(s, item) == s # 0 => s < nextSid /\ (entries[s] = NoEntry \/ entries[s].item = item)

Bound ==
  /\ \A r \in requests : Refs(r.sid, r.item)
  /\ dialog # Closed => Refs(dialog.sid, dialog.item)
  /\ \A item \in Item : Refs(resume[item], item)
  /\ \A f \in Flow : f < nextFlow => Refs(flow[f].sid, flow[f].item)

\* A token that came with a callback came with one that was started.
TokensNumbered == \A s \in Sid : entries[s].token.from # 0 => entries[s].token.from < nextFlow

\* A step never reuses an identifier, nor gives a session to another item.
Evolves ==
  /\ nextSid <= nextSid'
  /\ \A s \in Sid : s < nextSid =>
       entries'[s] = NoEntry \/ (entries[s] # NoEntry /\ entries'[s].item = entries[s].item)

LEMMA EvolvesKeepsRefs ==
  ASSUME TypeOK, TypeOK', Evolves, NEW s \in 0..MaxSessions, NEW i \in Item, Refs(s, i)
  PROVE  Refs(s, i)'
<1>1. CASE s = 0
  BY <1>1 DEF Refs
<1>2. CASE s # 0
  <2>1. s \in Sid /\ s < nextSid
    BY <1>2, TestSessionsAssumption DEF Sid, Refs
  <2>2. s < nextSid'
    BY <2>1, TestSessionsAssumption DEF Evolves, TypeOK
  <2>3. QED
    BY <1>2, <2>1, <2>2 DEF Refs, Evolves
<1>3. QED
  BY <1>1, <1>2

\* A handler that finds or creates its session, and writes only there.
LEMMA EnsuredEvolves ==
  ASSUME TypeOK, StoreNumbered, NEW s \in 0..MaxSessions, NEW i \in Item, Room(s), Advance(s),
         Refs(s, i), revoked' = revoked, entries' \in [Sid -> Entry \cup {NoEntry}],
         NEW n, n = Ensured(s),
         entries'[n].item = WithSession(s, i)[n].item, entries'[n] \in Entry,
         \A t \in Sid : t # n => entries'[t] = entries[t]
  PROVE  Evolves /\ StoreNumbered' /\ Refs(n, i)' /\ entries'[n].item = i
<1>1. nextSid \in Nat /\ nextSid' = (IF Has(s) THEN nextSid ELSE nextSid + 1)
      /\ (\A t \in Sid : t \in Nat) /\ revoked \subseteq Sid
  BY AdvanceTyped, TestSessionsAssumption DEF TypeOK, Sid
<1>2. /\ n \in Sid /\ WithSession(s, i)[n] \in Entry
      /\ Has(s) => s \in Sid /\ n = s /\ WithSession(s, i)[s] = entries[s]
      /\ ~Has(s) => n = nextSid /\ WithSession(s, i)[nextSid].item = i
  BY SessionFacts
<1>3. CASE Has(s)
  <2>1. s # 0 /\ entries[s] # NoEntry /\ entries[s].item = i /\ nextSid' = nextSid /\ n = s
        /\ entries'[s].item = entries[s].item /\ s < nextSid /\ s \in Sid
    BY <1>1, <1>2, <1>3 DEF Has, Refs
  <2>2. Evolves
    <3>1. nextSid <= nextSid'
      BY <1>1, <2>1
    <3>2. \A t \in Sid : entries'[t] = NoEntry \/ (entries[t] # NoEntry /\ entries'[t].item = entries[t].item)
      BY <2>1
    <3>3. QED
      BY <3>1, <3>2, Zenon DEF Evolves
  <2>3. StoreNumbered'
    BY <2>1 DEF StoreNumbered
  <2>4. QED
    BY <2>1, <2>2, <2>3 DEF Refs
<1>4. CASE ~Has(s)
  <2>1. nextSid' = nextSid + 1 /\ n = nextSid /\ entries'[nextSid].item = i /\ nextSid \in Sid
    BY <1>1, <1>2, <1>4
  <2>2. Evolves
    BY <1>1, <2>1 DEF Evolves
  <2>3. StoreNumbered'
    <3>1. \A t \in Sid : entries'[t] # NoEntry => t < nextSid'
      BY <1>1, <2>1 DEF StoreNumbered
    <3>2. \A t \in revoked : t < nextSid /\ t \in Nat
      BY <1>1 DEF StoreNumbered
    <3>3. \A t \in revoked' : t < nextSid'
      BY <1>1, <2>1, <3>2
    <3>4. QED
      BY <3>1, <3>3 DEF StoreNumbered
  <2>4. QED
    BY <1>1, <2>1, <2>2, <2>3 DEF Refs
<1>5. QED
  BY <1>3, <1>4

\* A step that only ends sessions, or changes what an entry says of its flow.
LEMMA SmallerEvolves ==
  ASSUME TypeOK, StoreNumbered, nextSid' = nextSid,
         \A s \in Sid : entries'[s] = NoEntry \/ (entries[s] # NoEntry /\ entries'[s].item = entries[s].item),
         \A s \in revoked' : s < nextSid
  PROVE  Evolves /\ StoreNumbered'
<1>1. nextSid \in Nat
  BY TestSessionsAssumption DEF TypeOK
<1>2. QED
  BY <1>1 DEF Evolves, StoreNumbered

LEMMA StoreStays ==
  ASSUME TypeOK, StoreNumbered, UNCHANGED <<entries, nextSid, revoked>>
  PROVE  Evolves /\ StoreNumbered'
<1>1. nextSid \in Nat
  BY TestSessionsAssumption DEF TypeOK
<1>2. QED
  BY <1>1 DEF Evolves, StoreNumbered

\* What a request says of its session, for the invariants below.
LEMMA SendFacts ==
  ASSUME TypeOK, NEW k \in {"connect", "poll", "invoke", "start", "submit"}, NEW i \in Item,
         NEW s \in 0..MaxSessions, Send(Request(k, i, s, entries))
  PROVE  \A r \in requests' : \/ r \in requests
                               \/ /\ r.item = i /\ r.sid = s /\ r.kind = k
                                  /\ r.token = NoToken \/ (s \in Sid /\ r.token = entries[s].token)
<1>1. entries \in [Sid -> Entry \cup {NoEntry}]
  BY DEF TypeOK
<1>2. Request(k, i, s, entries).kind = k
  BY DEF Request
<1>3. QED
  BY <1>1, <1>2, RequestTyped DEF Send

LEMMA BoundFollows ==
  ASSUME TypeOK, TypeOK', Evolves, Bound,
         \A q \in requests' : (\E r \in requests : q.sid = r.sid /\ q.item = r.item) \/ Refs(q.sid, q.item)',
         \/ dialog' = Closed
         \/ dialog # Closed /\ dialog'.sid = dialog.sid /\ dialog'.item = dialog.item
         \/ Refs(dialog.sid, dialog.item)',
         \A j \in Item : resume'[j] = resume[j] \/ Refs(resume[j], j)',
         \A f \in Flow : f < nextFlow' => (f < nextFlow /\ flow'[f] = flow[f]) \/ Refs(flow[f].sid, flow[f].item)',
         \A f \in Flow : f < nextFlow => flow[f] \in Context
  PROVE  Bound'
<1>1. ASSUME NEW q \in requests' PROVE Refs(q.sid, q.item)'
  <2>1. CASE \E r \in requests : q.sid = r.sid /\ q.item = r.item
    <3>1. PICK r \in requests : q.sid = r.sid /\ q.item = r.item
      BY <2>1
    <3>2. r.sid \in 0..MaxSessions /\ r.item \in Item /\ Refs(r.sid, r.item)
      BY <3>1, ReqTyped DEF TypeOK, Bound
    <3>3. q.sid \in 0..MaxSessions /\ q.item \in Item /\ Refs(q.sid, q.item)
      BY <3>1, <3>2
    <3>4. QED
      BY <3>3, EvolvesKeepsRefs
  <2>2. QED
    BY <2>1
<1>2. ASSUME dialog' # Closed PROVE Refs(dialog.sid, dialog.item)'
  <2>1. CASE dialog # Closed /\ dialog'.sid = dialog.sid /\ dialog'.item = dialog.item
    <3>1. dialog \in DialogType
      BY <2>1 DEF TypeOK, DialogType
    <3>2. dialog.sid \in 0..MaxSessions /\ dialog.item \in Item /\ Refs(dialog.sid, dialog.item)
      BY <2>1, <3>1, DialogTyped DEF Bound
    <3>3. PICK a \in 0..MaxSessions, b \in Item : a = dialog.sid /\ b = dialog.item
      BY <3>2
    <3>4. Refs(a, b)
      BY <3>2, <3>3
    <3>5. Refs(a, b)'
      BY <3>4, EvolvesKeepsRefs
    <3>6. QED
      BY <2>1, <3>3, <3>5 DEF Refs
  <2>2. QED
    BY <1>2, <2>1
<1>3. ASSUME NEW j \in Item PROVE Refs(resume[j], j)'
  <2>1. CASE resume'[j] = resume[j]
    <3>1. resume[j] \in 0..MaxSessions /\ Refs(resume[j], j)
      BY DEF TypeOK, Bound
    <3>2. PICK a \in 0..MaxSessions : a = resume[j]
      BY <3>1
    <3>3. Refs(a, j)
      BY <3>1, <3>2
    <3>4. Refs(a, j)'
      BY <3>3, EvolvesKeepsRefs
    <3>5. QED
      BY <2>1, <3>2, <3>4 DEF Refs
  <2>2. QED
    BY <2>1
<1>4. ASSUME NEW f \in Flow, f < nextFlow' PROVE Refs(flow[f].sid, flow[f].item)'
  <2>1. CASE f < nextFlow /\ flow'[f] = flow[f]
    <3>1. flow[f].sid \in 0..MaxSessions /\ flow[f].item \in Item /\ Refs(flow[f].sid, flow[f].item)
      BY <2>1 DEF Bound, Context, Sid
    <3>2. PICK a \in 0..MaxSessions, b \in Item : a = flow[f].sid /\ b = flow[f].item
      BY <3>1
    <3>3. Refs(a, b)
      BY <3>1, <3>2
    <3>4. Refs(a, b)'
      BY <3>3, EvolvesKeepsRefs
    <3>5. QED
      BY <2>1, <3>2, <3>4 DEF Refs
  <2>2. QED
    BY <1>4, <2>1
<1>5. QED
  BY <1>1, <1>2, <1>3, <1>4 DEF Bound

\* The timer of an open dialog asks about a session of the dialog's item.
PolledBound == polled # 0 => dialog # Closed /\ Refs(polled, dialog.item)

Safe ==
  /\ TypeOK /\ LiveHasDialog /\ StartsBound
  /\ StoreNumbered /\ FlowsNumbered /\ Bound /\ PolledBound

\* No step moves an identifier to another item.
LEMMA BoundStep ==
  Safe /\ TypeOK' /\ [Next]_vars => Evolves /\ StoreNumbered' /\ Bound'
<1>1. SUFFICES ASSUME Safe, TypeOK', [Next]_vars PROVE Evolves /\ StoreNumbered' /\ Bound'
  OBVIOUS
<1>a. /\ TypeOK /\ LiveHasDialog /\ StartsBound /\ StoreNumbered /\ FlowsNumbered /\ Bound /\ PolledBound
      /\ dialog \in DialogType \cup {Closed} /\ requests \subseteq Req
      /\ resume \in [Item -> 0..MaxSessions] /\ entries \in [Sid -> Entry \cup {NoEntry}]
      /\ \A f \in Flow : f < nextFlow => flow[f] \in Context
  BY <1>1 DEF Safe, TypeOK, DialogType, FlowsNumbered
<1>b. ASSUME dialog # Closed
      PROVE  dialog \in DialogType /\ dialog.item \in Item /\ dialog.sid \in 0..MaxSessions
             /\ Refs(dialog.sid, dialog.item)
  BY <1>a, <1>b, DialogTyped DEF Bound
<1>c. ASSUME UNCHANGED <<flow, nextFlow>>
      PROVE  \A f \in Flow : f < nextFlow' =>
               (f < nextFlow /\ flow'[f] = flow[f]) \/ Refs(flow[f].sid, flow[f].item)'
  BY <1>c
<1>d. \A r \in requests : r.item \in Item /\ r.sid \in 0..MaxSessions /\ Refs(r.sid, r.item)
  BY <1>a, ReqTyped DEF Bound
<1>2. ASSUME NEW item \in Item, OpenDialog(item) PROVE Evolves /\ StoreNumbered' /\ Bound'
  <2>1. /\ dialog' = [item |-> item, sid |-> resume[item], phase |-> "connecting"]
        /\ Send(Request("connect", item, resume[item], entries))
        /\ resume' = [resume EXCEPT ![item] = 0]
        /\ UNCHANGED <<entries, nextSid, revoked, flow, nextFlow>>
    BY <1>2 DEF OpenDialog, ResumeKey, store, oauth
  <2>2. Evolves /\ StoreNumbered'
    BY <1>a, <2>1, StoreStays
  <2>3. resume[item] \in 0..MaxSessions /\ Refs(resume[item], item)
    BY <1>a DEF Bound
  <2>4. Refs(resume[item], item) => Refs(dialog.sid, dialog.item)'
    BY <2>1 DEF Refs
  <2>5. \A q \in requests' : (\E r \in requests : q.sid = r.sid /\ q.item = r.item) \/ Refs(q.sid, q.item)'
    <3>1. ASSUME NEW q \in requests', q.item = item, q.sid = resume[item]
          PROVE  Refs(q.sid, q.item)'
      BY <2>1, <2>3, <3>1 DEF Refs
    <3>2. \A q \in requests' : q \in requests \/ (q.item = item /\ q.sid = resume[item])
      BY <1>a, <2>1, <2>3, SendTyped
    <3>3. QED
      BY <3>1, <3>2
  <2>6. \A j \in Item : resume'[j] = resume[j] \/ Refs(resume[j], j)'
    BY <1>a, <2>1 DEF Refs
  <2>7. QED
    BY <1>1, <1>a, <1>c, <2>1, <2>2, <2>3, <2>4, <2>5, <2>6, BoundFollows
<1>e. ASSUME NEW k \in {"connect", "poll", "invoke", "submit"}, dialog # Closed,
             NEW s \in 0..MaxSessions, Refs(s, dialog.item), Send(Request(k, dialog.item, s, entries)),
             UNCHANGED <<entries, nextSid, revoked, flow, nextFlow, resume>>,
             dialog'.sid = dialog.sid, dialog'.item = dialog.item
      PROVE  Evolves /\ StoreNumbered' /\ Bound'
  <2>1. Evolves /\ StoreNumbered'
    BY <1>a, <1>e, StoreStays
  <2>2. \A q \in requests' : (\E r \in requests : q.sid = r.sid /\ q.item = r.item) \/ Refs(q.sid, q.item)'
    <3>1. \A q \in requests' : q \in requests \/ (q.item = dialog.item /\ q.sid = s)
      BY <1>a, <1>b, <1>e, SendTyped
    <3>2. ASSUME NEW q \in requests', q.item = dialog.item, q.sid = s
          PROVE  Refs(q.sid, q.item)'
      BY <1>e, <3>2 DEF Refs
    <3>3. QED
      BY <3>1, <3>2
  <2>3. QED
    BY <1>1, <1>a, <1>c, <1>e, <2>1, <2>2, BoundFollows
<1>3. CASE RetryConnect
  <2>1. dialog # Closed
    BY <1>3, DialogTyped DEF RetryConnect
  <2>2. dialog'.sid = dialog.sid /\ dialog'.item = dialog.item
    BY <1>3, <1>b, <2>1, DialogTurns DEF RetryConnect, Phase
  <2>3. QED
    BY <1>3, <1>b, <1>e, <2>1, <2>2 DEF RetryConnect, store, oauth
<1>p. CASE ProvideToken
  <2>1. dialog # Closed /\ UNCHANGED <<entries, nextSid, revoked, flow, nextFlow, requests, resume>>
    BY <1>p, DialogTyped DEF ProvideToken, store, oauth
  <2>2. dialog'.sid = dialog.sid /\ dialog'.item = dialog.item
    BY <1>p, <1>b, <2>1, DialogTurns DEF ProvideToken, Phase
  <2>3. Evolves /\ StoreNumbered'
    BY <1>a, <2>1, StoreStays
  <2>4. QED
    BY <1>1, <1>a, <1>c, <2>1, <2>2, <2>3, BoundFollows
<1>4. CASE Poll
  <2>1. dialog # Closed /\ dialog' = dialog /\ polled # 0
        /\ Send(Request("poll", dialog.item, polled, entries))
        /\ UNCHANGED <<entries, nextSid, revoked, flow, nextFlow, resume>>
    BY <1>4, DialogTyped DEF Poll, GetToken, store, oauth, tab
  <2>2. polled \in 0..MaxSessions /\ Refs(polled, dialog.item)
    BY <1>a, <2>1 DEF TypeOK, PolledBound
  <2>3. QED
    BY <1>e, <2>1, <2>2
<1>5. CASE Invoke
  BY <1>5, <1>b, <1>e, DialogTyped DEF Invoke, store, oauth, tab
<1>6. CASE SubmitToken
  <2>1. dialog # Closed
    BY <1>6, DialogTyped DEF SubmitToken
  <2>2. dialog'.sid = dialog.sid /\ dialog'.item = dialog.item
    BY <1>6 DEF SubmitToken
  <2>3. QED
    BY <1>6, <1>b, <1>e, <2>1, <2>2 DEF SubmitToken, store, oauth
<1>7. CASE StartOAuth
  <2> DEFINE n == Ensured(dialog.sid)
  <2>1. /\ Room(dialog.sid) /\ Advance(dialog.sid) /\ dialog' = dialog
        /\ entries' = WithSession(dialog.sid, dialog.item)
        /\ Send(Request("start", dialog.item, n, entries))
        /\ UNCHANGED <<flow, nextFlow, resume, revoked>> /\ dialog # Closed
    BY <1>7, DialogTyped DEF StartOAuth, oauth
  <2>2. n \in Sid /\ entries' \in [Sid -> Entry \cup {NoEntry}] /\ entries'[n] \in Entry
        /\ \A t \in Sid : t # n => entries'[t] = entries[t]
    BY <1>a, <1>b, <2>1, SessionFacts
  <2>3. PICK m \in Sid : m = n
    BY <2>2
  <2>4. Evolves /\ StoreNumbered' /\ \A i \in Item : i = dialog.item => Refs(m, i)'
    BY <1>a, <1>b, <2>1, <2>2, <2>3, EnsuredEvolves
  <2>5. dialog'.sid = dialog.sid /\ dialog'.item = dialog.item
    BY <2>1
  <2>6. \A q \in requests' : (\E r \in requests : q.sid = r.sid /\ q.item = r.item) \/ Refs(q.sid, q.item)'
    <3>1. \A q \in requests' : q \in requests \/ (q.item = dialog.item /\ q.sid = m)
      BY <1>a, <1>b, <2>1, <2>3, SendTyped DEF Sid
    <3>2. ASSUME NEW q \in requests', q.item = dialog.item, q.sid = m
          PROVE  Refs(q.sid, q.item)'
      BY <1>b, <2>1, <2>4, <3>2
    <3>3. QED
      BY <3>1, <3>2
  <2>7. QED
    BY <1>1, <1>a, <1>c, <2>1, <2>4, <2>5, <2>6, BoundFollows
<1>8. CASE Close
  <2>1. /\ dialog' = Closed /\ requests' = {[r EXCEPT !.live = FALSE] : r \in requests}
        /\ UNCHANGED <<nextSid, flow, nextFlow, resume>> /\ dialog # Closed
    BY <1>8 DEF Close, oauth
  <2>2. Has(dialog.sid) => dialog.sid \in Sid /\ dialog.sid < nextSid
    BY <1>a, <1>b, <2>1 DEF Has, Sid, StoreNumbered
  <2>3. /\ \A s \in Sid : entries'[s] = NoEntry \/ entries'[s] = entries[s]
        /\ \A s \in revoked' : s < nextSid
    BY <1>8, <1>a, <2>2 DEF Close, StoreNumbered
  <2>4. Evolves /\ StoreNumbered'
    <3>1. \A s \in Sid : entries'[s] = NoEntry \/ (entries[s] # NoEntry /\ entries'[s].item = entries[s].item)
      BY <2>3, Zenon
    <3>2. QED
      BY <1>a, <2>1, <2>3, <3>1, SmallerEvolves
  <2>5. ASSUME NEW q \in requests' PROVE \E r \in requests : q.sid = r.sid /\ q.item = r.item
    <3>1. PICK r \in requests : q = [r EXCEPT !.live = FALSE]
      BY <2>1, Zenon
    <3>2. QED
      BY <1>a, <3>1, ReqTyped
  <2>6. QED
    BY <1>1, <1>a, <1>c, <2>1, <2>4, <2>5, BoundFollows
<1>f. ASSUME NEW r \in requests, requests' = requests \ {r},
             dialog' = Closed \/ (dialog # Closed /\ dialog'.sid = dialog.sid /\ dialog'.item = dialog.item),
             UNCHANGED <<entries, nextSid, revoked, flow, nextFlow, resume>>
      PROVE  Evolves /\ StoreNumbered' /\ Bound'
  <2>1. Evolves /\ StoreNumbered'
    BY <1>a, <1>f, StoreStays
  <2>2. \A q \in requests' : \E p \in requests : q.sid = p.sid /\ q.item = p.item
    BY <1>f
  <2>3. QED
    BY <1>1, <1>a, <1>c, <1>f, <2>1, <2>2, BoundFollows
<1>9. ASSUME NEW r \in requests, NEW outcome \in Outcome, TestEnds(r, outcome)
      PROVE  Evolves /\ StoreNumbered' /\ Bound'
  BY <1>a, <1>f, <1>9, TestEndsFacts DEF store, oauth
<1>g. dialog.sid \in 0..MaxSessions
  BY <1>a, DialogTyped, TestSessionsAssumption
<1>h. \A p \in {"waiting", "auth", "connecting"} : p \in Phase
  BY DEF Phase
<1>s. ASSUME NEW r \in requests, SubmitFails(r) PROVE Evolves /\ StoreNumbered' /\ Bound'
  BY <1>f, <1>s DEF SubmitFails, store, oauth
<1>10. ASSUME NEW r \in requests, StartFails(r) PROVE Evolves /\ StoreNumbered' /\ Bound'
  <2>1. Answered(r, dialog.sid, "auth") /\ requests' = requests \ {r}
        /\ UNCHANGED <<entries, nextSid, revoked, flow, nextFlow, resume>>
    BY <1>10 DEF StartFails, store, oauth
  <2>2. (dialog' = Closed <=> dialog = Closed) /\ dialog'.item = dialog.item /\ dialog'.sid = dialog.sid
    BY <1>a, <1>g, <1>h, <2>1, AnsweredTyped
  <2>3. QED
    BY <1>f, <2>1, <2>2
<1>11. ASSUME NEW r \in requests, StartEnds(r) PROVE Evolves /\ StoreNumbered' /\ Bound'
  <2>1. /\ requests' = requests \ {r} /\ nextFlow <= MaxFlows /\ nextFlow' = nextFlow + 1
        /\ flow' = [flow EXCEPT ![nextFlow] = [item |-> r.item, sid |-> r.sid]]
        /\ entries' = IF Has(r.sid) THEN [entries EXCEPT ![r.sid].state = nextFlow] ELSE entries
        /\ resume' = [resume EXCEPT ![r.item] = r.sid]
        /\ Answered(r, r.sid, "waiting") /\ UNCHANGED <<nextSid, revoked>>
    BY <1>11 DEF StartEnds, ResumeKey
  <2>2. nextFlow \in Flow /\ nextFlow \in Nat
    BY <1>a, <2>1, TestSessionsAssumption DEF TypeOK, Flow
  <2>3. \A s \in Sid : entries'[s] = entries[s] \/ (entries[s] # NoEntry /\ entries'[s].item = entries[s].item)
    <3>1. CASE Has(r.sid)
      <4>1. r.sid \in Sid /\ entries[r.sid] \in Entry /\ entries[r.sid] # NoEntry
        BY <1>a, <1>d, <3>1 DEF Has, Sid
      <4>2. [entries[r.sid] EXCEPT !.state = nextFlow].item = entries[r.sid].item
        BY <2>2, <4>1, EntryKeeps DEF Flow
      <4>3. entries' = [entries EXCEPT ![r.sid] = [entries[r.sid] EXCEPT !.state = nextFlow]]
        BY <2>1, <3>1
      <4>4. QED
        BY <1>a, <4>1, <4>2, <4>3
    <3>2. CASE ~Has(r.sid)
      BY <2>1, <3>2
    <3>3. QED
      BY <3>1, <3>2
  <2>4. Evolves /\ StoreNumbered'
    BY <1>a, <2>1, <2>3, SmallerEvolves DEF StoreNumbered
  <2>5. PICK a \in 0..MaxSessions, b \in Item : a = r.sid /\ b = r.item
    BY <1>d
  <2>6. Refs(a, b)'
    BY <1>1, <1>a, <1>d, <2>4, <2>5, EvolvesKeepsRefs
  <2>7. \/ dialog' = Closed
        \/ dialog # Closed /\ dialog'.sid = dialog.sid /\ dialog'.item = dialog.item
        \/ Refs(dialog.sid, dialog.item)'
    <3>1. /\ dialog' = Closed <=> dialog = Closed
          /\ dialog'.item = dialog.item
          /\ dialog'.sid = dialog.sid \/ (r.live /\ dialog'.sid = r.sid /\ dialog.item = r.item)
      BY <1>a, <1>d, <1>h, <2>1, AnsweredTyped
    <3>2. CASE dialog'.sid = dialog.sid
      BY <3>1, <3>2
    <3>3. CASE dialog'.sid = a /\ dialog'.item = b
      BY <2>6, <3>3
    <3>4. QED
      BY <2>5, <3>1, <3>2, <3>3
  <2>8. \A j \in Item : resume'[j] = resume[j] \/ Refs(resume[j], j)'
    <3>1. \A j \in Item : resume'[j] = resume[j] \/ (j = b /\ resume'[j] = a)
      BY <1>a, <2>1, <2>5
    <3>2. QED
      BY <2>6, <3>1
  <2>9. \A f \in Flow : f < nextFlow' => (f < nextFlow /\ flow'[f] = flow[f]) \/ Refs(flow[f].sid, flow[f].item)'
    <3>1. flow'[nextFlow].sid = a /\ flow'[nextFlow].item = b /\ \A f \in Flow : f # nextFlow => flow'[f] = flow[f]
      BY <1>a, <2>1, <2>2, <2>5 DEF TypeOK
    <3>2. \A f \in Flow : f < nextFlow' => f < nextFlow \/ f = nextFlow
      BY <2>1, <2>2 DEF Flow
    <3>3. ASSUME NEW f \in Flow, f = nextFlow PROVE Refs(flow[f].sid, flow[f].item)'
      BY <2>6, <3>1, <3>3
    <3>4. QED
      BY <2>2, <3>1, <3>2, <3>3 DEF Flow
  <2>10. \A q \in requests' : \E p \in requests : q.sid = p.sid /\ q.item = p.item
    BY <2>1
  <2>11. QED
    BY <1>1, <1>a, <2>4, <2>7, <2>8, <2>9, <2>10, BoundFollows
<1>12. ASSUME NEW r \in requests, SubmitEnds(r) PROVE Evolves /\ StoreNumbered' /\ Bound'
  <2> DEFINE es == WithSession(r.sid, r.item)  t == [from |-> 0, item |-> r.item]
  <2>1. /\ Room(r.sid) /\ Advance(r.sid) /\ entries' = StoreToken(es, Ensured(r.sid), t)
        /\ Answered(r, Ensured(r.sid), dialog.phase)
        /\ requests' = (requests \ {r}) \cup
             {Reconnect(r.item, Ensured(r.sid), entries', r.live)}
        /\ UNCHANGED <<flow, nextFlow, resume, revoked>>
    BY <1>12 DEF SubmitEnds, Reconnect, oauth
  <2>2. Ensured(r.sid) \in Sid /\ es \in [Sid -> Entry \cup {NoEntry}] /\ es[Ensured(r.sid)] \in Entry
        /\ \A u \in Sid : u # Ensured(r.sid) => es[u] = entries[u]
    BY <1>a, <1>d, <2>1, SessionFacts
  <2>3. PICK n \in Sid : n = Ensured(r.sid)
    BY <2>2
  <2>4. /\ entries' \in [Sid -> Entry \cup {NoEntry}] /\ entries'[n] \in Entry
        /\ entries'[n].item = es[n].item /\ \A u \in Sid : u # n => entries'[u] = entries[u]
    <3>1. t \in Token
      BY <1>d, TokenTyped, TestSessionsAssumption
    <3>2. entries' = StoreToken(es, n, t) /\ es[n] \in Entry
      BY <2>1, <2>2, <2>3
    <3>3. \A u \in Sid : u # n => es[u] = entries[u]
      BY <2>2, <2>3
    <3> HIDE DEF es, t
    <3>4. QED
      BY <2>2, <3>1, <3>2, <3>3, StoreTokenFacts
  <2>5. PICK b \in Item : b = r.item
    BY <1>d
  <2>6. Evolves /\ StoreNumbered' /\ Refs(n, b)'
    BY <1>a, <1>d, <2>1, <2>2, <2>3, <2>4, <2>5, EnsuredEvolves
  <2>7. n \in 0..MaxSessions
    BY DEF Sid
  <2>8. \/ dialog' = Closed
        \/ dialog # Closed /\ dialog'.sid = dialog.sid /\ dialog'.item = dialog.item
        \/ Refs(dialog.sid, dialog.item)'
    <3>1. /\ dialog' = Closed <=> dialog = Closed
          /\ dialog'.item = dialog.item
          /\ dialog'.sid = dialog.sid \/ (r.live /\ dialog'.sid = n /\ dialog.item = r.item)
      <4>1. CASE r.live
        <5>1. dialog.phase \in Phase
          BY <1>a, <1>b, <4>1, DialogTyped DEF LiveHasDialog
        <5>2. QED
          BY <1>a, <2>1, <2>3, <2>7, <5>1, AnsweredTyped
      <4>2. CASE ~r.live
        BY <2>1, <4>2 DEF Answered
      <4>3. QED
        BY <4>1, <4>2
    <3>2. CASE dialog'.sid = dialog.sid
      BY <3>1, <3>2
    <3>3. CASE dialog'.sid = n /\ dialog'.item = b
      BY <2>6, <3>3
    <3>4. QED
      BY <2>5, <3>1, <3>2, <3>3
  <2>9. \A q \in requests' : (\E p \in requests : q.sid = p.sid /\ q.item = p.item) \/ Refs(q.sid, q.item)'
    <3>1. PICK q0 : q0 = Reconnect(r.item, Ensured(r.sid), entries', r.live)
      OBVIOUS
    <3>2. q0.sid = n /\ q0.item = b
      <4>1. r.live \in BOOLEAN
        BY <1>a, ReqTyped
      <4>2. q0 = Reconnect(b, n, entries', r.live)
        BY <2>3, <2>5, <3>1
      <4>3. QED
        BY <2>4, <2>7, <4>1, <4>2, ReconnectTyped
    <3>3. \A q \in requests' : q \in requests \/ (q.sid = n /\ q.item = b)
      BY <2>1, <3>1, <3>2, Zenon
    <3>4. QED
      BY <2>6, <3>3
  <2>10. QED
    BY <1>1, <1>a, <1>c, <2>1, <2>6, <2>8, <2>9, BoundFollows
<1>13. ASSUME NEW f \in Flow, CallbackTakes(f) \/ FlowExpires(f) \/ ExchangeFails(f)
       PROVE  Evolves /\ StoreNumbered' /\ Bound'
  <2>1. UNCHANGED <<entries, nextSid, revoked, flow, nextFlow, requests, dialog, resume>>
    BY <1>13 DEF CallbackTakes, FlowExpires, ExchangeFails, store, browser, tab
  <2>2. Evolves /\ StoreNumbered'
    BY <1>a, <2>1, StoreStays
  <2>3. QED
    BY <1>1, <1>a, <1>c, <2>1, <2>2, BoundFollows
<1>14. ASSUME NEW f \in Flow, ExchangeEnds(f) PROVE Evolves /\ StoreNumbered' /\ Bound'
  <2> DEFINE c == flow[f]  es == WithSession(c.sid, c.item)  t == [from |-> f, item |-> c.item]
  <2>1. /\ f \in exchanging /\ Room(c.sid) /\ Advance(c.sid)
        /\ entries' = StoreToken(es, Ensured(c.sid), t)
        /\ UNCHANGED <<flow, nextFlow, requests, dialog, resume, revoked>>
    BY <1>14 DEF ExchangeEnds, browser, tab
  <2>2. c.item \in Item /\ c.sid \in 0..MaxSessions /\ Refs(c.sid, c.item)
    BY <1>a, <2>1 DEF FlowsNumbered, Bound, Context, Sid
  <2>3. Ensured(c.sid) \in Sid /\ es \in [Sid -> Entry \cup {NoEntry}] /\ es[Ensured(c.sid)] \in Entry
        /\ \A u \in Sid : u # Ensured(c.sid) => es[u] = entries[u]
    BY <1>a, <2>1, <2>2, SessionFacts
  <2>4. PICK n \in Sid : n = Ensured(c.sid)
    BY <2>3
  <2>5. /\ entries' \in [Sid -> Entry \cup {NoEntry}] /\ entries'[n] \in Entry
        /\ entries'[n].item = es[n].item /\ \A u \in Sid : u # n => entries'[u] = entries[u]
    BY <2>1, <2>2, <2>3, <2>4, TokenTyped, StoreTokenFacts DEF Flow
  <2>6. Evolves /\ StoreNumbered'
    BY <1>a, <2>1, <2>2, <2>3, <2>4, <2>5, EnsuredEvolves
  <2>7. QED
    BY <1>1, <1>a, <1>c, <2>1, <2>6, BoundFollows
<1>15. CASE Restart
  <2>1. entries' = [s \in Sid |-> NoEntry] /\ requests' = {}
        /\ UNCHANGED <<nextSid, flow, nextFlow, resume, revoked>>
    BY <1>15 DEF Restart
  <2>2. dialog' = Closed \/ (dialog # Closed /\ dialog'.sid = dialog.sid /\ dialog'.item = dialog.item)
    <3>1. CASE dialog = Closed
      <4>1. Broken = {}
        BY <1>a, <3>1 DEF Broken, LiveHasDialog
      <4>2. QED
        BY <1>15, <3>1, <4>1 DEF Restart
    <3>2. CASE dialog # Closed
      <4>1. dialog' = dialog \/ \E p \in Broken : dialog' = [dialog EXCEPT !.phase = p]
        BY <1>15 DEF Restart
      <4>2. Broken \subseteq Phase
        BY DEF Broken, Phase
      <4>3. QED
        BY <1>b, <3>2, <4>1, <4>2, DialogTurns
    <3>3. QED
      BY <3>1, <3>2
  <2>3. Evolves /\ StoreNumbered'
    BY <1>a, <2>1, SmallerEvolves DEF StoreNumbered
  <2>4. QED
    BY <1>1, <1>a, <1>c, <2>1, <2>2, <2>3, BoundFollows
<1>16. CASE UNCHANGED vars
  <2>1. UNCHANGED <<entries, nextSid, revoked, flow, nextFlow, requests, dialog, resume>>
    BY <1>16 DEF vars, store, oauth, browser, tab
  <2>2. Evolves /\ StoreNumbered'
    BY <1>a, <2>1, StoreStays
  <2>3. QED
    BY <1>1, <1>a, <1>c, <2>1, <2>2, BoundFollows
<1>17. QED
  BY <1>1, <1>2, <1>3, <1>4, <1>5, <1>6, <1>7, <1>8, <1>9, <1>10, <1>11, <1>12, <1>13, <1>14, <1>15, <1>16,
     <1>p, <1>s DEF Next

\* The timer is set for the session the dialog then works with, and the dialog
\* keeps its item.
LEMMA PolledStep ==
  Safe /\ TypeOK' /\ Evolves /\ Bound' /\ [Next]_vars => PolledBound'
<1>1. SUFFICES ASSUME Safe, TypeOK', Evolves, Bound', [Next]_vars PROVE PolledBound'
  OBVIOUS
<1>a. TypeOK /\ LiveHasDialog /\ PolledBound /\ polled \in 0..MaxSessions
      /\ dialog \in DialogType \cup {Closed} /\ requests \subseteq Req
  BY <1>1 DEF Safe, TypeOK, DialogType
<1>b. ASSUME polled' = 0 PROVE PolledBound'
  BY <1>b DEF PolledBound
<1>c. ASSUME polled' \in {0, polled}, dialog # Closed => dialog' # Closed /\ dialog'.item = dialog.item
      PROVE  PolledBound'
  <2>1. CASE polled' = polled /\ polled # 0
    <3>1. dialog # Closed /\ Refs(polled, dialog.item) /\ dialog.item \in Item
      BY <1>a, <2>1, DialogTyped DEF PolledBound
    <3>2. PICK a \in 0..MaxSessions, b \in Item : a = polled /\ b = dialog.item
      BY <1>a, <3>1
    <3>3. Refs(a, b)'
      BY <1>1, <1>a, <3>1, <3>2, EvolvesKeepsRefs
    <3>4. QED
      BY <1>c, <2>1, <3>1, <3>2, <3>3 DEF PolledBound, Refs
  <2>2. QED
    BY <1>b, <1>c, <2>1
<1>2. ASSUME NEW item \in Item, OpenDialog(item) PROVE PolledBound'
  BY <1>2, <1>a, <1>b DEF OpenDialog, PolledBound
<1>3. CASE RetryConnect \/ Close
  BY <1>3, <1>b DEF RetryConnect, Close
<1>4. CASE ProvideToken
  <2>1. dialog # Closed => dialog' # Closed /\ dialog'.item = dialog.item
    BY <1>4, <1>a, DialogTurns, DialogTyped DEF ProvideToken, Phase
  <2>2. QED
    BY <1>4, <1>c, <2>1 DEF ProvideToken
<1>5. ASSUME dialog' = dialog, polled' = polled PROVE PolledBound'
  BY <1>5, <1>c
<1>6. CASE Poll \/ Invoke \/ StartOAuth \/ SubmitToken
  BY <1>6, <1>5 DEF Poll, Invoke, StartOAuth, SubmitToken, tab
<1>7. ASSUME NEW r \in requests, NEW outcome \in Outcome, TestEnds(r, outcome) PROVE PolledBound'
  <2>1. dialog # Closed => dialog' # Closed /\ dialog'.item = dialog.item
    BY <1>7, <1>a, TestEndsFacts
  <2>2. polled' \in {0, polled}
    BY <1>7 DEF TestEnds
  <2>3. QED
    BY <1>c, <2>1, <2>2
<1>8. ASSUME NEW r \in requests, StartEnds(r) PROVE PolledBound'
  <2>1. CASE r.live
    <3>1. dialog \in DialogType /\ polled' = r.sid /\ dialog' = [dialog EXCEPT !.sid = r.sid, !.phase = "waiting"]
      BY <1>8, <1>a, <2>1 DEF StartEnds, Answered, LiveHasDialog
    <3>2. r.sid \in 0..MaxSessions /\ "waiting" \in Phase
      BY <1>a, ReqTyped DEF Phase
    <3>3. dialog' # Closed /\ dialog'.sid = r.sid
      <4>1. Answered(r, r.sid, "waiting")
        BY <1>8 DEF StartEnds
      <4>2. dialog' # Closed
        BY <1>a, <2>1, <3>1, <3>2, <4>1, AnsweredTyped, DialogTyped
      <4>3. [dialog EXCEPT !.sid = r.sid, !.phase = "waiting"].sid = r.sid
        BY <3>1 DEF DialogType
      <4>4. QED
        BY <3>1, <4>2, <4>3
    <3>4. QED
      BY <1>1, <3>1, <3>3 DEF Bound, PolledBound, Refs
  <2>2. CASE ~r.live
    BY <1>5, <1>8, <2>2 DEF StartEnds, Answered
  <2>3. QED
    BY <2>1, <2>2
<1>9. ASSUME NEW r \in requests, StartFails(r) PROVE PolledBound'
  <2>1. CASE r.live
    BY <1>b, <1>9, <2>1 DEF StartFails
  <2>2. CASE ~r.live
    BY <1>5, <1>9, <2>2 DEF StartFails, Answered
  <2>3. QED
    BY <2>1, <2>2
<1>10. ASSUME NEW r \in requests, SubmitEnds(r) PROVE PolledBound'
  <2>1. Answered(r, Ensured(r.sid), dialog.phase) /\ polled' = polled /\ Room(r.sid)
    BY <1>10 DEF SubmitEnds
  <2>2. r.item \in Item /\ r.sid \in 0..MaxSessions
    BY <1>a, ReqTyped
  <2>3. Ensured(r.sid) \in 0..MaxSessions
    BY <1>a, <2>1, <2>2, SessionFacts DEF Sid
  <2>4. CASE r.live
    <3>1. dialog \in DialogType /\ dialog.phase \in Phase
      BY <1>a, <2>4, DialogTyped DEF LiveHasDialog
    <3>2. QED
      BY <1>a, <1>c, <2>1, <2>3, <3>1, AnsweredTyped
  <2>5. CASE ~r.live
    BY <1>5, <2>1, <2>5 DEF Answered
  <2>6. QED
    BY <2>4, <2>5
<1>11. ASSUME NEW r \in requests, SubmitFails(r) PROVE PolledBound'
  BY <1>5, <1>11 DEF SubmitFails
<1>12. ASSUME NEW f \in Flow, CallbackTakes(f) \/ FlowExpires(f) \/ ExchangeEnds(f) \/ ExchangeFails(f)
       PROVE  PolledBound'
  BY <1>5, <1>12 DEF CallbackTakes, FlowExpires, ExchangeEnds, ExchangeFails, browser, tab
<1>13. CASE Restart
  <2>1. dialog' = dialog \/ \E p \in Broken : dialog' = [dialog EXCEPT !.phase = p]
    BY <1>13 DEF Restart
  <2>2. Broken \subseteq Phase
    BY DEF Broken, Phase
  <2>3. dialog # Closed => dialog' # Closed /\ dialog'.item = dialog.item
    <3>1. ASSUME NEW p \in Broken, dialog # Closed, dialog' = [dialog EXCEPT !.phase = p]
          PROVE  dialog' # Closed /\ dialog'.item = dialog.item
      BY <1>a, <2>2, <3>1, DialogTurns, DialogTyped
    <3>2. QED
      BY <2>1, <3>1
  <2>4. polled' \in {0, polled}
    BY <1>13 DEF Restart
  <2>5. QED
    BY <1>c, <2>3, <2>4
<1>14. CASE UNCHANGED vars
  BY <1>5, <1>14 DEF vars, browser, tab
<1>15. QED
  BY <1>1, <1>2, <1>3, <1>4, <1>6, <1>7, <1>8, <1>9, <1>10, <1>11, <1>12, <1>13, <1>14 DEF Next

-----------------------------------------------------------------------------
(* Flows are taken once; the remaining parts of the invariant.              *)

\* A flow that has been taken is in the store no more, and never again.
LEMMA FlowsStep ==
  Safe /\ TypeOK' /\ Evolves /\ [Next]_vars => FlowsNumbered' /\ StartsBound'
<1>1. SUFFICES ASSUME Safe, TypeOK', Evolves, [Next]_vars PROVE FlowsNumbered' /\ StartsBound'
  OBVIOUS
<1>a. /\ TypeOK /\ LiveHasDialog /\ StartsBound /\ StoreNumbered /\ FlowsNumbered /\ Bound
      /\ dialog \in DialogType \cup {Closed} /\ requests \subseteq Req
      /\ nextSid \in Nat /\ nextSid' \in Nat /\ nextSid <= nextSid' /\ nextFlow \in Nat
      /\ flow \in [Flow -> Context \cup {NoContext}]
  BY <1>1, TestSessionsAssumption DEF Safe, TypeOK, DialogType, Evolves
<1>b. ASSUME dialog # Closed
      PROVE  dialog.item \in Item /\ dialog.sid \in 0..MaxSessions
  BY <1>a, <1>b, DialogTyped
<1>c. ASSUME UNCHANGED <<flow, nextFlow>>, flows' \subseteq flows,
             exchanging' \subseteq exchanging \cup flows, taken' \subseteq taken \cup (flows \ flows')
      PROVE  FlowsNumbered' /\ \A f \in flows' \cup exchanging' : flow'[f] \in Context
  <2>1. \A f \in Flow : f < nextFlow' => flow'[f] \in Context /\ flow'[f].sid < nextSid'
    BY <1>a, <1>c DEF FlowsNumbered, Context, Sid
  <2>2. (\A f \in flows' \cup exchanging' \cup taken' : f < nextFlow') /\ flows' \cap taken' = {}
    BY <1>a, <1>c DEF FlowsNumbered
  <2>3. \A f \in flows' \cup exchanging' : flow'[f] \in Context
    BY <1>a, <1>c DEF StartsBound
  <2>4. QED
    BY <2>1, <2>2, <2>3 DEF FlowsNumbered
<1>d. ASSUME NEW k \in {"connect", "poll", "invoke", "start", "submit"}, NEW i \in Item,
             NEW s \in 0..MaxSessions, Send(Request(k, i, s, entries)), k = "start" => s # 0
      PROVE  \A r \in requests' : r.kind = "start" => r.sid # 0
  BY <1>a, <1>d, SendFacts DEF StartsBound
<1>e. ASSUME \A q \in requests' : \E r \in requests : q.kind = r.kind /\ q.sid = r.sid
      PROVE  \A r \in requests' : r.kind = "start" => r.sid # 0
  BY <1>a, <1>e DEF StartsBound
<1>2. ASSUME NEW item \in Item, OpenDialog(item) PROVE FlowsNumbered' /\ StartsBound'
  <2>1. Send(Request("connect", item, resume[item], entries)) /\ resume[item] \in 0..MaxSessions
        /\ UNCHANGED <<flow, nextFlow, flows, exchanging, taken>>
    BY <1>2, <1>a DEF OpenDialog, ResumeKey, oauth, TypeOK
  <2>2. QED
    BY <1>c, <1>d, <2>1 DEF StartsBound
<1>3. ASSUME RetryConnect \/ Poll \/ Invoke \/ SubmitToken PROVE FlowsNumbered' /\ StartsBound'
  <2>1. /\ dialog # Closed /\ UNCHANGED <<flow, nextFlow, flows, exchanging, taken>>
        /\ \E k \in {"connect", "poll", "invoke", "submit"} : \E s \in {dialog.sid, polled} :
             Send(Request(k, dialog.item, s, entries))
    BY <1>3, DialogTyped DEF RetryConnect, Poll, Invoke, SubmitToken, oauth
  <2>2. polled \in 0..MaxSessions
    BY <1>a DEF TypeOK
  <2>3. QED
    BY <1>b, <1>c, <1>d, <2>1, <2>2 DEF StartsBound
<1>p. CASE ProvideToken
  <2>1. UNCHANGED <<flow, nextFlow, flows, exchanging, taken, requests>>
    BY <1>p DEF ProvideToken, oauth
  <2>2. QED
    BY <1>c, <1>e, <2>1 DEF StartsBound
<1>4. CASE StartOAuth
  <2>1. /\ dialog # Closed /\ UNCHANGED <<flow, nextFlow, flows, exchanging, taken>>
        /\ Room(dialog.sid) /\ Send(Request("start", dialog.item, Ensured(dialog.sid), entries))
    BY <1>4, DialogTyped DEF StartOAuth, oauth
  <2>2. Ensured(dialog.sid) \in 0..MaxSessions /\ Ensured(dialog.sid) # 0
    BY <1>a, <1>b, <2>1, SessionFacts DEF Sid
  <2>3. QED
    BY <1>b, <1>c, <1>d, <2>1, <2>2 DEF StartsBound
<1>5. CASE Close
  <2>1. requests' = {[r EXCEPT !.live = FALSE] : r \in requests}
        /\ UNCHANGED <<flow, nextFlow, flows, exchanging, taken>>
    BY <1>5 DEF Close, oauth
  <2>2. \A r \in Req : [r EXCEPT !.live = FALSE].kind = r.kind /\ [r EXCEPT !.live = FALSE].sid = r.sid
    BY DEF Req
  <2>3. ASSUME NEW q \in requests' PROVE \E r \in requests : q.kind = r.kind /\ q.sid = r.sid
    <3>1. PICK r \in requests : q = [r EXCEPT !.live = FALSE]
      BY <2>1, Zenon
    <3>2. QED
      BY <1>a, <2>2, <3>1
  <2>4. QED
    BY <1>c, <1>e, <2>1, <2>3 DEF StartsBound
<1>6. ASSUME NEW r \in requests,
             StartFails(r) \/ SubmitFails(r) \/ \E outcome \in Outcome : TestEnds(r, outcome)
      PROVE  FlowsNumbered' /\ StartsBound'
  <2>1. requests' = requests \ {r} /\ UNCHANGED <<flow, nextFlow, flows, exchanging, taken>>
    BY <1>6 DEF StartFails, SubmitFails, TestEnds, oauth
  <2>2. QED
    BY <1>c, <1>e, <2>1 DEF StartsBound
<1>7. ASSUME NEW r \in requests, StartEnds(r) PROVE FlowsNumbered' /\ StartsBound'
  <2>1. /\ requests' = requests \ {r} /\ nextFlow <= MaxFlows /\ nextFlow' = nextFlow + 1
        /\ flow' = [flow EXCEPT ![nextFlow] = [item |-> r.item, sid |-> r.sid]]
        /\ flows' = flows \cup {nextFlow} /\ UNCHANGED <<exchanging, taken>> /\ r.kind = "start"
    BY <1>7 DEF StartEnds
  <2>2. nextFlow \in Flow
    BY <1>a, <2>1, TestSessionsAssumption DEF TypeOK, Flow
  <2>3. r.sid \in Sid /\ r.item \in Item /\ r.sid < nextSid
    <3>1. r.sid \in 0..MaxSessions /\ r.item \in Item /\ r.sid # 0
      BY <1>a, <2>1, ReqTyped DEF StartsBound
    <3>2. r.sid < nextSid
      BY <1>a, <3>1 DEF Bound, Refs
    <3>3. QED
      BY <3>1, <3>2, TestSessionsAssumption DEF Sid
  <2>4. [item |-> r.item, sid |-> r.sid] \in Context /\ r.sid < nextSid'
    BY <1>a, <2>3 DEF Context, Sid
  <2>5. flow'[nextFlow] \in Context /\ flow'[nextFlow].sid < nextSid'
        /\ \A f \in Flow : f # nextFlow => flow'[f] = flow[f]
    BY <1>a, <2>1, <2>2, <2>4
  <2>6. \A f \in Flow : f < nextFlow' => flow'[f] \in Context /\ flow'[f].sid < nextSid'
    <3>1. \A f \in Flow : f < nextFlow' => f < nextFlow \/ f = nextFlow
      BY <1>a, <2>1 DEF Flow
    <3>2. \A f \in Flow : f < nextFlow => flow[f] \in Context /\ flow[f].sid < nextSid'
      BY <1>a DEF FlowsNumbered, Context, Sid
    <3>3. QED
      BY <1>a, <2>5, <3>1, <3>2 DEF Flow
  <2>7. \A f \in flows \cup exchanging \cup taken : f \in Flow /\ f < nextFlow
    BY <1>a DEF FlowsNumbered, TypeOK
  <2>8. (\A f \in flows' \cup exchanging' \cup taken' : f < nextFlow') /\ flows' \cap taken' = {}
    <3>1. \A f \in flows' \cup exchanging' \cup taken' : f < nextFlow'
      BY <1>a, <2>1, <2>7 DEF Flow
    <3>2. nextFlow \notin taken
      BY <1>a, <2>7
    <3>3. flows' \cap taken' = {}
      BY <1>a, <2>1, <3>2 DEF FlowsNumbered
    <3>4. QED
      BY <3>1, <3>3
  <2>9. \A f \in flows' \cup exchanging' : flow'[f] \in Context
    BY <1>a, <2>1, <2>5, <2>7 DEF StartsBound
  <2>10. QED
    BY <1>e, <2>1, <2>6, <2>8, <2>9 DEF FlowsNumbered, StartsBound
<1>8. ASSUME NEW r \in requests, SubmitEnds(r) PROVE FlowsNumbered' /\ StartsBound'
  <2>1. UNCHANGED <<flow, nextFlow, flows, exchanging, taken>>
        /\ requests' = (requests \ {r}) \cup {Reconnect(r.item, Ensured(r.sid), entries', r.live)}
    BY <1>8 DEF SubmitEnds, Reconnect, oauth
  <2>2. requests' \subseteq requests \cup {Reconnect(r.item, Ensured(r.sid), entries', r.live)}
    BY <2>1, Zenon
  <2>3. Reconnect(r.item, Ensured(r.sid), entries', r.live).kind = "connect"
    BY DEF Request, Reconnect
  <2>4. \A q \in requests' : q.kind = "start" => q.sid # 0
    BY <1>a, <2>2, <2>3 DEF StartsBound
  <2>5. QED
    BY <1>c, <2>1, <2>4 DEF StartsBound
<1>9. ASSUME NEW f \in Flow, CallbackTakes(f) \/ FlowExpires(f) \/ ExchangeFails(f) \/ ExchangeEnds(f)
      PROVE  FlowsNumbered' /\ StartsBound'
  <2>1. /\ UNCHANGED <<flow, nextFlow, requests>> /\ flows' \subseteq flows
        /\ exchanging' \subseteq exchanging \cup flows /\ taken' \subseteq taken \cup (flows \ flows')
    BY <1>9 DEF CallbackTakes, FlowExpires, ExchangeFails, ExchangeEnds, browser, tab
  <2>2. QED
    BY <1>c, <1>e, <2>1 DEF StartsBound
<1>10. CASE Restart
  <2>1. UNCHANGED <<flow, nextFlow, taken>> /\ flows' = {} /\ exchanging' = {} /\ requests' = {}
    BY <1>10 DEF Restart
  <2>2. QED
    BY <1>c, <2>1 DEF StartsBound
<1>11. CASE UNCHANGED vars
  <2>1. UNCHANGED <<flow, nextFlow, flows, exchanging, taken, requests>>
    BY <1>11 DEF vars, oauth, browser, tab
  <2>2. QED
    BY <1>c, <1>e, <2>1 DEF StartsBound
<1>12. QED
  BY <1>1, <1>2, <1>3, <1>4, <1>5, <1>6, <1>7, <1>8, <1>9, <1>10, <1>11, <1>p DEF Next

-----------------------------------------------------------------------------
(* Tokens.                                                                  *)

\* What a step does to the token of a session: there is none, it stays, or it is a
\* new one for the session's item, typed by hand or brought by a callback that was
\* started for this session or for one that has gone.
TokenKept(s) == entries'[s].token = NoToken \/
  (entries'[s].token = entries[s].token /\ entries'[s].item = entries[s].item)

TokenNew(s) ==
  /\ entries'[s].token.item = entries'[s].item
  /\ LET f == entries'[s].token.from
     IN f # 0 => /\ f \in Flow /\ f < nextFlow'
                 /\ flow'[f].sid = s \/ entries'[flow'[f].sid] = NoEntry

LEMMA TokensStep ==
  Safe /\ TypeOK' /\ Evolves /\ [Next]_vars => \A s \in Sid : TokenKept(s) \/ TokenNew(s)
<1>1. SUFFICES ASSUME Safe, TypeOK', Evolves, [Next]_vars, NEW s \in Sid PROVE TokenKept(s) \/ TokenNew(s)
  OBVIOUS
<1>a. /\ TypeOK /\ StoreNumbered /\ FlowsNumbered /\ Bound /\ StartsBound
      /\ dialog \in DialogType \cup {Closed} /\ requests \subseteq Req
      /\ entries \in [Sid -> Entry \cup {NoEntry}] /\ entries[s] \in Entry \cup {NoEntry}
  BY <1>1 DEF Safe, TypeOK, DialogType
<1>b. ASSUME dialog # Closed
      PROVE  dialog.item \in Item /\ dialog.sid \in 0..MaxSessions
  BY <1>a, <1>b, DialogTyped
<1>c. \A r \in requests : r.item \in Item /\ r.sid \in 0..MaxSessions /\ Refs(r.sid, r.item)
  BY <1>a, ReqTyped DEF Bound
<1>d. entries' = entries => TokenKept(s)
  BY DEF TokenKept
<1>2. CASE StartOAuth
  <2>1. /\ dialog # Closed /\ Room(dialog.sid) /\ entries' = WithSession(dialog.sid, dialog.item)
    BY <1>2, DialogTyped DEF StartOAuth
  <2>2. CASE Has(dialog.sid)
    BY <1>d, <2>1, <2>2 DEF WithSession
  <2>3. CASE ~Has(dialog.sid)
    <3>1. /\ entries'[nextSid].token = NoToken
          /\ \A t \in Sid : t # nextSid => entries'[t] = entries[t]
      BY <1>a, <1>b, <2>1, <2>3, SessionFacts
    <3>2. QED
      BY <3>1 DEF TokenKept
  <2>4. QED
    BY <2>2, <2>3
<1>3. CASE Close
  <2>1. entries'[s] = entries[s] \/ entries'[s] = NoEntry
    BY <1>3, <1>a DEF Close
  <2>2. QED
    BY <2>1, EntryTyped DEF TokenKept
<1>4. ASSUME NEW r \in requests, StartEnds(r) PROVE TokenKept(s)
  <2>1. CASE Has(r.sid)
    <3>1. r.sid \in Sid /\ entries[r.sid] \in Entry
      BY <1>a, <1>c, <2>1, TestSessionsAssumption DEF Has, Sid
    <3>2. nextFlow \in 0..MaxFlows
      BY <1>4, <1>a, TestSessionsAssumption DEF StartEnds, TypeOK
    <3>3. entries' = [entries EXCEPT ![r.sid] = [entries[r.sid] EXCEPT !.state = nextFlow]]
      BY <1>4, <2>1 DEF StartEnds
    <3>4. [entries[r.sid] EXCEPT !.state = nextFlow].item = entries[r.sid].item
          /\ [entries[r.sid] EXCEPT !.state = nextFlow].token = entries[r.sid].token
      BY <3>1, <3>2, EntryKeeps
    <3>5. CASE s = r.sid
      BY <1>a, <3>1, <3>3, <3>4, <3>5 DEF TokenKept
    <3>6. CASE s # r.sid
      BY <3>3, <3>6 DEF TokenKept
    <3>7. QED
      BY <3>5, <3>6
  <2>2. CASE ~Has(r.sid)
    BY <1>4, <1>d, <2>2 DEF StartEnds
  <2>3. QED
    BY <2>1, <2>2
\* A token for the item, stored in the session found or created for it.
<1>e. ASSUME NEW n \in 0..MaxSessions, NEW i \in Item, NEW f \in 0..MaxFlows, Room(n), Advance(n), Refs(n, i),
             entries' = StoreToken(WithSession(n, i), Ensured(n), [from |-> f, item |-> i]),
             revoked' = revoked
      PROVE  IF s = Ensured(n) THEN entries'[s].token = [from |-> f, item |-> i] /\ entries'[s].item = i
             ELSE entries'[s] = entries[s]
  <2>1. /\ Ensured(n) \in Sid /\ WithSession(n, i) \in [Sid -> Entry \cup {NoEntry}]
        /\ WithSession(n, i)[Ensured(n)] \in Entry
        /\ \A t \in Sid : t # Ensured(n) => WithSession(n, i)[t] = entries[t]
    BY <1>a, <1>e, SessionFacts
  <2>2. PICK m \in Sid : m = Ensured(n)
    BY <2>1
  <2>3. [from |-> f, item |-> i] \in Token
    BY TokenTyped
  <2>4. /\ entries' \in [Sid -> Entry \cup {NoEntry}] /\ entries'[m] \in Entry
        /\ entries'[m].item = WithSession(n, i)[m].item
        /\ entries'[m].token = [from |-> f, item |-> i]
        /\ \A t \in Sid : t # m => entries'[t] = entries[t]
    BY <1>e, <2>1, <2>2, <2>3, StoreTokenFacts
  <2>5. entries'[m].item = i
    BY <1>a, <1>e, <2>2, <2>4, EnsuredEvolves
  <2>6. QED
    BY <2>2, <2>4, <2>5
<1>5. ASSUME NEW r \in requests, SubmitEnds(r) PROVE TokenKept(s) \/ TokenNew(s)
  <2>1. /\ Room(r.sid) /\ Advance(r.sid) /\ revoked' = revoked
        /\ entries' = StoreToken(WithSession(r.sid, r.item), Ensured(r.sid), [from |-> 0, item |-> r.item])
    BY <1>5 DEF SubmitEnds
  <2>2. IF s = Ensured(r.sid) THEN entries'[s].token = [from |-> 0, item |-> r.item] /\ entries'[s].item = r.item
        ELSE entries'[s] = entries[s]
    BY <1>c, <1>e, <2>1, TestSessionsAssumption
  <2>3. QED
    BY <2>2 DEF TokenKept, TokenNew
<1>6. ASSUME NEW f \in Flow, ExchangeEnds(f) PROVE TokenKept(s) \/ TokenNew(s)
  <2> DEFINE c == flow[f]
  <2>1. /\ f \in exchanging /\ Room(c.sid) /\ Advance(c.sid) /\ UNCHANGED <<flow, nextFlow, revoked>>
        /\ entries' = StoreToken(WithSession(c.sid, c.item), Ensured(c.sid), [from |-> f, item |-> c.item])
    BY <1>6 DEF ExchangeEnds, browser, tab
  <2>2. c.item \in Item /\ c.sid \in 0..MaxSessions /\ c.sid \in Sid /\ Refs(c.sid, c.item)
        /\ f < nextFlow /\ c.sid < nextSid /\ f \in 0..MaxFlows /\ c.sid # 0
    BY <1>a, <2>1 DEF FlowsNumbered, Bound, Context, Sid, Flow
  <2>3. IF s = Ensured(c.sid) THEN entries'[s].token = [from |-> f, item |-> c.item] /\ entries'[s].item = c.item
        ELSE entries'[s] = entries[s]
    BY <1>e, <2>1, <2>2
  <2>4. CASE s # Ensured(c.sid)
    BY <2>3, <2>4 DEF TokenKept
  <2>5. CASE s = Ensured(c.sid)
    <3>1. c.sid = s \/ entries'[c.sid] = NoEntry
      <4>1. CASE Has(c.sid)
        BY <2>5, <4>1 DEF Ensured
      <4>2. CASE ~Has(c.sid)
        <5>1. entries[c.sid] = NoEntry
          BY <2>2, <4>2 DEF Has
        <5>2. QED
          BY <1>1, <2>2, <5>1 DEF Evolves
      <4>3. QED
        BY <4>1, <4>2
    <3>2. entries'[s].token.from = f /\ entries'[s].token.item = entries'[s].item
      BY <2>3, <2>5
    <3>3. flow' = flow /\ nextFlow' = nextFlow
      BY <2>1
    <3>4. QED
      BY <2>2, <3>1, <3>2, <3>3 DEF TokenNew
  <2>6. QED
    BY <2>4, <2>5
<1>7. CASE Restart
  BY <1>7, EntryTyped DEF Restart, TokenKept
<1>8. ASSUME entries' = entries PROVE TokenKept(s)
  BY <1>8 DEF TokenKept
<1>9. ASSUME \/ RetryConnect \/ ProvideToken \/ Poll \/ Invoke \/ SubmitToken \/ UNCHANGED vars
             \/ \E item \in Item : OpenDialog(item)
             \/ \E r \in requests : \/ StartFails(r) \/ SubmitFails(r)
                                   \/ \E outcome \in Outcome : TestEnds(r, outcome)
             \/ \E f \in Flow : CallbackTakes(f) \/ FlowExpires(f) \/ ExchangeFails(f)
      PROVE  entries' = entries
  BY <1>9 DEF RetryConnect, ProvideToken, Poll, Invoke, SubmitToken, OpenDialog, StartFails, SubmitFails, TestEnds,
              CallbackTakes, FlowExpires, ExchangeFails, vars, store
<1>10. QED
  BY <1>1, <1>2, <1>3, <1>4, <1>5, <1>6, <1>7, <1>8, <1>9 DEF Next

\* A request reads the token of a session its item has.
LEMMA RequestTokensStep ==
  Safe /\ TokensStayWithTheirItem /\ TypeOK' /\ [Next]_vars
    => \A q \in requests' : q.token # NoToken => q.token.item = q.item
<1>1. SUFFICES ASSUME Safe, TokensStayWithTheirItem, TypeOK', [Next]_vars
               PROVE  \A q \in requests' : q.token # NoToken => q.token.item = q.item
  OBVIOUS
<1>a. /\ TypeOK /\ StoreNumbered /\ FlowsNumbered /\ Bound /\ StartsBound
      /\ dialog \in DialogType \cup {Closed} /\ requests \subseteq Req
      /\ entries \in [Sid -> Entry \cup {NoEntry}] /\ resume \in [Item -> 0..MaxSessions]
  BY <1>1 DEF Safe, TypeOK, DialogType
<1>b. ASSUME dialog # Closed
      PROVE  dialog.item \in Item /\ dialog.sid \in 0..MaxSessions /\ Refs(dialog.sid, dialog.item)
  BY <1>a, <1>b, DialogTyped DEF Bound
<1>c. ASSUME NEW k \in {"connect", "poll", "invoke", "start", "submit"}, NEW i \in Item,
             NEW s \in 0..MaxSessions, Send(Request(k, i, s, entries)), k = "start" \/ Refs(s, i)
      PROVE  \A q \in requests' : q.token # NoToken => q.token.item = q.item
  <2>1. \A q \in requests' : \/ q \in requests
                              \/ /\ q.item = i /\ q.kind = k
                                 /\ q.token = NoToken \/ (s \in Sid /\ q.token = entries[s].token)
    BY <1>a, <1>c, SendFacts
  <2>2. CASE Refs(s, i)
    <3>1. s \in Sid => entries[s] = NoEntry \/ entries[s].item = i
      BY <2>2, TestSessionsAssumption DEF Refs, Sid
    <3>2. s \in Sid => entries[s].token = NoToken \/ entries[s].token.item = i
      BY <1>1, <3>1, EntryTyped DEF TokensStayWithTheirItem
    <3>3. QED
      BY <1>1, <2>1, <3>2 DEF TokensStayWithTheirItem
  <2>3. CASE k = "start"
    <3>1. Request(k, i, s, entries).token = NoToken
      BY <2>3 DEF Request
    <3>2. requests' = requests \cup {Request(k, i, s, entries)}
      BY <1>c DEF Send
    <3>3. QED
      BY <1>1, <3>1, <3>2 DEF TokensStayWithTheirItem
  <2>4. QED
    BY <1>c, <2>2, <2>3
<1>d. ASSUME \A q \in requests' : \E r \in requests : q.token = r.token /\ q.item = r.item
      PROVE  \A q \in requests' : q.token # NoToken => q.token.item = q.item
  BY <1>1, <1>d DEF TokensStayWithTheirItem
<1>2. ASSUME NEW item \in Item, OpenDialog(item)
      PROVE  \A q \in requests' : q.token # NoToken => q.token.item = q.item
  <2>1. Send(Request("connect", item, resume[item], entries)) /\ resume[item] \in 0..MaxSessions
        /\ Refs(resume[item], item)
    BY <1>2, <1>a DEF OpenDialog, ResumeKey, Bound
  <2>2. QED
    BY <1>c, <2>1
<1>3. ASSUME RetryConnect \/ Poll \/ Invoke \/ SubmitToken
      PROVE  \A q \in requests' : q.token # NoToken => q.token.item = q.item
  <2>1. /\ dialog # Closed
        /\ \E k \in {"connect", "poll", "invoke", "submit"} : \E s \in {dialog.sid, polled} :
             Send(Request(k, dialog.item, s, entries))
    BY <1>3, DialogTyped DEF RetryConnect, Poll, Invoke, SubmitToken
  <2>2. polled \in 0..MaxSessions /\ Refs(polled, dialog.item)
    BY <1>1, <2>1 DEF Safe, TypeOK, PolledBound, Refs
  <2>3. QED
    BY <1>b, <1>c, <2>1, <2>2
<1>4. ASSUME StartOAuth PROVE \A q \in requests' : q.token # NoToken => q.token.item = q.item
  <2>1. /\ dialog # Closed /\ Room(dialog.sid)
        /\ Send(Request("start", dialog.item, Ensured(dialog.sid), entries))
    BY <1>4, DialogTyped DEF StartOAuth
  <2>2. Ensured(dialog.sid) \in 0..MaxSessions
    BY <1>a, <1>b, <2>1, SessionFacts DEF Sid
  <2>3. QED
    BY <1>b, <1>c, <2>1, <2>2
<1>5. ASSUME Close PROVE \A q \in requests' : q.token # NoToken => q.token.item = q.item
  <2>1. ASSUME NEW q \in requests' PROVE \E r \in requests : q.token = r.token /\ q.item = r.item
    <3>1. PICK r \in requests : q = [r EXCEPT !.live = FALSE]
      BY <1>5, Zenon DEF Close
    <3>2. QED
      BY <1>a, <3>1, ReqTyped
  <2>2. QED
    BY <1>d, <2>1
<1>6. ASSUME requests' \subseteq requests PROVE \A q \in requests' : q.token # NoToken => q.token.item = q.item
  BY <1>d, <1>6
<1>7. ASSUME NEW r \in requests, SubmitEnds(r)
      PROVE  \A q \in requests' : q.token # NoToken => q.token.item = q.item
  <2> DEFINE t == [from |-> 0, item |-> r.item]  es == WithSession(r.sid, r.item)
  <2>1. /\ Room(r.sid) /\ entries' = StoreToken(es, Ensured(r.sid), t)
        /\ requests' = (requests \ {r}) \cup {Reconnect(r.item, Ensured(r.sid), entries', r.live)}
    BY <1>7 DEF SubmitEnds, Reconnect
  <2>2. r.item \in Item /\ r.sid \in 0..MaxSessions /\ t \in Token
    <3>1. r.item \in Item /\ r.sid \in 0..MaxSessions /\ 0 \in 0..MaxFlows
      <4>1. r \in Req
        BY <1>a
      <4>2. r.item \in Item /\ r.sid \in 0..MaxSessions
        BY <4>1, ReqTyped
      <4>3. QED
        BY <4>2, TestSessionsAssumption
    <3>2. QED
      BY <3>1, TokenTyped
  <2>3. Ensured(r.sid) \in Sid /\ es \in [Sid -> Entry \cup {NoEntry}] /\ es[Ensured(r.sid)] \in Entry
    BY <1>a, <2>1, <2>2, SessionFacts
  <2>4. PICK n \in Sid : n = Ensured(r.sid)
    BY <2>3
  <2>5. entries' \in [Sid -> Entry \cup {NoEntry}] /\ entries'[n].token = t
    BY <2>1, <2>2, <2>3, <2>4, StoreTokenFacts
  <2>6. PICK b \in Item : b = r.item
    BY <2>2
  <2>7. /\ Reconnect(b, n, entries', r.live).item = b
        /\ \/ Reconnect(b, n, entries', r.live).token = NoToken
           \/ Reconnect(b, n, entries', r.live).token = t
    <3>1. n \in 0..MaxSessions /\ r.live \in BOOLEAN
      <4>1. n \in 0..MaxSessions
        BY DEF Sid
      <4>2. QED
        BY <1>a, <4>1, ReqTyped
    <3>2. /\ Reconnect(b, n, entries', r.live).item = b
          /\ \/ Reconnect(b, n, entries', r.live).token = NoToken
             \/ Reconnect(b, n, entries', r.live).token = entries'[n].token
      BY <2>5, <3>1, ReconnectTyped
    <3>3. QED
      BY <2>5, <3>2
  <2>8. requests' \subseteq requests \cup {Reconnect(b, n, entries', r.live)}
    <3>1. requests' \subseteq (requests \ {r}) \cup {Reconnect(r.item, Ensured(r.sid), entries', r.live)}
      BY <2>1, Zenon
    <3>2. QED
      BY <2>4, <2>6, <3>1, Zenon
  <2>9. QED
    BY <1>1, <2>6, <2>7, <2>8 DEF TokensStayWithTheirItem
<1>8. ASSUME \/ UNCHANGED vars \/ Restart \/ ProvideToken
             \/ \E r \in requests : \/ StartEnds(r) \/ StartFails(r) \/ SubmitFails(r)
                                   \/ \E outcome \in Outcome : TestEnds(r, outcome)
             \/ \E f \in Flow : CallbackTakes(f) \/ FlowExpires(f) \/ ExchangeEnds(f) \/ ExchangeFails(f)
      PROVE  requests' \subseteq requests
  BY <1>8 DEF StartEnds, StartFails, SubmitFails, TestEnds, CallbackTakes, FlowExpires, ExchangeEnds,
              ExchangeFails, Restart, ProvideToken, vars, browser
<1>9. QED
  BY <1>1, <1>2, <1>3, <1>4, <1>5, <1>6, <1>7, <1>8 DEF Next

LEMMA HistoryStep ==
  Safe /\ [Next]_vars =>
    /\ nextFlow <= nextFlow' /\ \A f \in Flow : f < nextFlow => flow'[f] = flow[f]
    /\ \A s \in revoked' : s \in revoked \/ entries'[s] = NoEntry
<1>1. SUFFICES ASSUME Safe, [Next]_vars
               PROVE  /\ nextFlow <= nextFlow' /\ \A f \in Flow : f < nextFlow => flow'[f] = flow[f]
                      /\ \A s \in revoked' : s \in revoked \/ entries'[s] = NoEntry
  OBVIOUS
<1>a. nextFlow \in Nat /\ flow \in [Flow -> Context \cup {NoContext}]
      /\ dialog \in DialogType \cup {Closed} /\ entries \in [Sid -> Entry \cup {NoEntry}]
  BY <1>1, TestSessionsAssumption DEF Safe, TypeOK, DialogType
<1>2. CASE Close
  <2>1. UNCHANGED <<flow, nextFlow>>
    BY <1>2 DEF Close, oauth
  <2>2. Has(dialog.sid) => dialog.sid \in Sid
    BY <1>2, <1>a, DialogTyped, TestSessionsAssumption DEF Close, Has, Sid
  <2>3. QED
    BY <1>2, <1>a, <2>1, <2>2 DEF Close
<1>3. ASSUME NEW r \in requests, StartEnds(r), NEW f \in Flow, f < nextFlow PROVE flow'[f] = flow[f]
  BY <1>3, <1>a DEF StartEnds
<1>4. ASSUME NEW r \in requests, StartEnds(r) PROVE nextFlow <= nextFlow' /\ revoked' = revoked
  BY <1>4, <1>a DEF StartEnds
<1>5. ASSUME \/ RetryConnect \/ ProvideToken \/ Poll \/ Invoke \/ SubmitToken \/ StartOAuth \/ Restart \/ UNCHANGED vars
             \/ \E item \in Item : OpenDialog(item)
             \/ \E r \in requests : \/ StartFails(r) \/ SubmitFails(r) \/ SubmitEnds(r)
                                   \/ \E outcome \in Outcome : TestEnds(r, outcome)
             \/ \E f \in Flow : CallbackTakes(f) \/ FlowExpires(f) \/ ExchangeFails(f) \/ ExchangeEnds(f)
      PROVE  UNCHANGED <<flow, nextFlow, revoked>>
  BY <1>5 DEF RetryConnect, ProvideToken, Poll, Invoke, SubmitToken, StartOAuth, Restart, OpenDialog, StartFails, SubmitFails,
              SubmitEnds, TestEnds, CallbackTakes, FlowExpires, ExchangeFails, ExchangeEnds, vars, store, oauth
<1>6. ASSUME UNCHANGED <<flow, nextFlow, revoked>>
      PROVE  /\ nextFlow <= nextFlow' /\ \A f \in Flow : f < nextFlow => flow'[f] = flow[f]
             /\ \A s \in revoked' : s \in revoked \/ entries'[s] = NoEntry
  BY <1>6, <1>a
<1>7. QED
  BY <1>1, <1>2, <1>3, <1>4, <1>5, <1>6 DEF Next

-----------------------------------------------------------------------------
(* The invariant and what follows from it.                                  *)

Inv ==
  /\ Safe /\ TokensNumbered
  /\ TokensStayWithTheirItem /\ TokenLandsWhereItWasAsked /\ RevokedStaysGone

LEMMA InitInv == Init => Inv
<1>1. SUFFICES ASSUME Init PROVE Inv
  OBVIOUS
<1>2. \A s \in Sid : entries[s] = NoEntry /\ entries[s].token = NoToken /\ entries[s].token.from = 0
  BY <1>1, EntryTyped, TokenTyped DEF Init
<1>3. TypeOK
  <2>1. 0 \in 0..MaxSessions /\ 1 \in 1..(MaxSessions + 1) /\ 1 \in 1..(MaxFlows + 1)
    BY TestSessionsAssumption
  <2>2. entries \in [Sid -> Entry \cup {NoEntry}] /\ flow \in [Flow -> Context \cup {NoContext}]
        /\ resume \in [Item -> 0..MaxSessions] /\ requests \subseteq Req
    BY <1>1, <2>1 DEF Init
  <2>3. QED
    BY <1>1, <2>1, <2>2 DEF Init, TypeOK
<1>4. LiveHasDialog /\ StartsBound /\ StoreNumbered /\ FlowsNumbered
  BY <1>1, <1>2 DEF Init, LiveHasDialog, StartsBound, StoreNumbered, FlowsNumbered, Flow
<1>5. Bound
  BY <1>1 DEF Init, Bound, Refs, Flow
<1>p. PolledBound
  BY <1>1 DEF Init, PolledBound
<1>6. TokensNumbered /\ TokensStayWithTheirItem /\ TokenLandsWhereItWasAsked /\ RevokedStaysGone
  BY <1>1, <1>2 DEF Init, TokensNumbered, TokensStayWithTheirItem, TokenLandsWhereItWasAsked, RevokedStaysGone
<1>7. QED
  BY <1>3, <1>4, <1>5, <1>6, <1>p DEF Inv, Safe

LEMMA Invariance == Spec => []Inv
<1>1. Inv /\ [Next]_vars => Inv'
  <2>1. SUFFICES ASSUME Inv, [Next]_vars PROVE Inv'
    OBVIOUS
  <2>2. Safe /\ TypeOK' /\ LiveHasDialog'
    BY <2>1, TypeStep DEF Inv, Safe
  <2>3. Evolves /\ StoreNumbered' /\ Bound'
    BY <2>1, <2>2, BoundStep
  <2>4. FlowsNumbered' /\ StartsBound'
    BY <2>1, <2>2, <2>3, FlowsStep
  <2>5. Safe'
    BY <2>1, <2>2, <2>3, <2>4, PolledStep DEF Safe
  <2>6. /\ nextFlow <= nextFlow' /\ \A f \in Flow : f < nextFlow => flow'[f] = flow[f]
        /\ \A s \in revoked' : s \in revoked \/ entries'[s] = NoEntry
    BY <2>1, <2>2, HistoryStep
  <2>7. /\ nextFlow \in Nat /\ nextFlow' \in Nat /\ entries \in [Sid -> Entry \cup {NoEntry}]
        /\ revoked \subseteq Sid
    BY <2>2, TestSessionsAssumption DEF TypeOK, Safe
  <2>8. ASSUME NEW s \in Sid, s < nextSid, entries[s] = NoEntry PROVE entries'[s] = NoEntry
    BY <2>3, <2>8 DEF Evolves
  <2>9. RevokedStaysGone'
    BY <2>1, <2>2, <2>6, <2>7, <2>8 DEF Inv, Safe, StoreNumbered, RevokedStaysGone
  <2>10. ASSUME NEW s \in Sid
         PROVE  /\ entries'[s].token # NoToken => entries'[s].token.item = entries'[s].item
                /\ entries'[s].token.from # 0 =>
                     /\ entries'[s].token.from < nextFlow'
                     /\ \/ flow'[entries'[s].token.from].sid = s
                        \/ entries'[flow'[entries'[s].token.from].sid] = NoEntry
    <3>1. TokenKept(s) \/ TokenNew(s)
      BY <2>1, <2>2, <2>3, TokensStep
    <3>2. CASE TokenNew(s)
      BY <3>2 DEF TokenNew
    <3>3. CASE entries'[s].token = NoToken
      BY <3>3, TokenTyped
    <3>4. CASE entries'[s].token = entries[s].token /\ entries'[s].item = entries[s].item
      <4> DEFINE f == entries[s].token.from
      <4>1. entries[s].token # NoToken => entries[s].token.item = entries[s].item
        BY <2>1 DEF Inv, TokensStayWithTheirItem
      <4>2. ASSUME f # 0
            PROVE  f < nextFlow' /\ (flow'[f].sid = s \/ entries'[flow'[f].sid] = NoEntry)
        <5>1. entries[s].token \in Token \cup {NoToken}
          BY <2>7, EntryTyped
        <5>2. f \in Flow /\ f \in Nat
          BY <4>2, <5>1, TokenTyped, TestSessionsAssumption DEF Flow
        <5>3. f < nextFlow /\ f < nextFlow'
          BY <2>1, <2>6, <2>7, <4>2, <5>2 DEF Inv, TokensNumbered
        <5>4. flow'[f] = flow[f] /\ flow[f].sid \in Sid /\ flow[f].sid < nextSid
          BY <2>2, <2>6, <5>2, <5>3 DEF Safe, FlowsNumbered, Context
        <5>5. flow[f].sid = s \/ entries[flow[f].sid] = NoEntry
          BY <2>1, <4>2 DEF Inv, TokenLandsWhereItWasAsked
        <5>6. QED
          BY <2>8, <5>3, <5>4, <5>5
      <4>3. QED
        BY <3>4, <4>1, <4>2
    <3>5. QED
      BY <3>1, <3>2, <3>3, <3>4 DEF TokenKept
  <2>11. TokensNumbered' /\ TokenLandsWhereItWasAsked'
    BY <2>10 DEF TokensNumbered, TokenLandsWhereItWasAsked
  <2>12. TokensStayWithTheirItem'
    <3>1. \A q \in requests' : q.token # NoToken => q.token.item = q.item
      BY <2>1, <2>2, RequestTokensStep DEF Inv
    <3>2. QED
      BY <2>10, <3>1 DEF TokensStayWithTheirItem
  <2>13. QED
    BY <2>5, <2>9, <2>11, <2>12 DEF Inv
<1>2. QED
  BY <1>1, InitInv, PTL DEF Spec

\* Every variable keeps its type, whatever the dialog and the provider do.
THEOREM TypeCorrect == Spec => []TypeOK
BY Invariance, PTL DEF Inv, Safe

\* A token is stored with, and sent to, the item it was obtained for.
THEOREM TokensStay == Spec => []TokensStayWithTheirItem
BY Invariance, PTL DEF Inv

\* A consent's token reaches the session it was asked for, or a new one.
THEOREM TokensLand == Spec => []TokenLandsWhereItWasAsked
BY Invariance, PTL DEF Inv

\* A session the dialog closed never comes back.
THEOREM RevokedAreGone == Spec => []RevokedStaysGone
BY Invariance, PTL DEF Inv

\* The authorization code of a consent is exchanged at most once.
THEOREM ConsentsExchangedOnce == Spec => OneExchangePerConsent
<1>1. Inv /\ [Next]_vars => [\A f \in exchanging' \ exchanging : f \notin taken]_vars
  <2>1. SUFFICES ASSUME Inv, [Next]_vars, NEW f \in exchanging' \ exchanging PROVE f \notin taken
    OBVIOUS
  <2>2. exchanging' \subseteq exchanging \cup flows
    <3>1. ASSUME NEW g \in Flow, CallbackTakes(g) \/ FlowExpires(g) \/ ExchangeEnds(g) \/ ExchangeFails(g)
          PROVE  exchanging' \subseteq exchanging \cup flows
      BY <3>1 DEF CallbackTakes, FlowExpires, ExchangeEnds, ExchangeFails
    <3>2. ASSUME \/ RetryConnect \/ ProvideToken \/ Poll \/ Invoke \/ StartOAuth \/ SubmitToken \/ Close \/ UNCHANGED vars
                 \/ \E item \in Item : OpenDialog(item)
                 \/ \E r \in requests : \/ StartEnds(r) \/ StartFails(r) \/ SubmitEnds(r) \/ SubmitFails(r)
                                       \/ \E outcome \in Outcome : TestEnds(r, outcome)
          PROVE  exchanging' = exchanging
      BY <3>2 DEF RetryConnect, ProvideToken, Poll, Invoke, StartOAuth, SubmitToken, Close, OpenDialog, StartEnds, StartFails,
                  SubmitEnds, SubmitFails, TestEnds, oauth, vars
    <3>3. CASE Restart
      BY <3>3 DEF Restart
    <3>4. QED
      BY <2>1, <3>1, <3>2, <3>3 DEF Next
  <2>3. QED
    BY <2>1, <2>2 DEF Inv, Safe, FlowsNumbered
<1>2. QED
  BY <1>1, Invariance, PTL DEF Spec, OneExchangePerConsent

-----------------------------------------------------------------------------
(* The promise of SessionPromise.  Fresh, Bounds, Helds and Spent are what  *)
(* its variables stand for.                                                 *)

Fresh  == {s \in Sid : s >= nextSid}
Bounds == [s \in Sid |-> entries[s].item]
Helds  == [s \in Sid |-> entries[s].token]
Spent  == taken \ exchanging

\* A flow that was not started has no context; what is exchanged was taken.
Unstarted ==
  /\ \A f \in Flow : f >= nextFlow => flow[f] = NoContext
  /\ exchanging \subseteq taken

LEMMA UnstartedHolds == Spec => []Unstarted
<1>1. Init => Unstarted
  BY DEF Init, Unstarted
<1>2. Inv /\ Unstarted /\ [Next]_vars => Unstarted'
  <2>1. SUFFICES ASSUME Inv, Unstarted, [Next]_vars PROVE Unstarted'
    OBVIOUS
  <2>2. nextFlow \in Nat /\ flow \in [Flow -> Context \cup {NoContext}] /\ \A f \in Flow : f \in Nat
    BY <2>1, TestSessionsAssumption DEF Inv, Safe, TypeOK, Flow
  <2>3. ASSUME NEW r \in requests, StartEnds(r) PROVE Unstarted'
    BY <2>1, <2>2, <2>3 DEF StartEnds, Unstarted
  <2>4. ASSUME NEW f \in Flow, CallbackTakes(f) \/ FlowExpires(f) \/ ExchangeEnds(f) \/ ExchangeFails(f)
        PROVE  Unstarted'
    BY <2>1, <2>4 DEF CallbackTakes, FlowExpires, ExchangeEnds, ExchangeFails, Unstarted
  <2>5. CASE Restart
    BY <2>1, <2>5 DEF Restart, Unstarted
  <2>6. ASSUME \/ RetryConnect \/ ProvideToken \/ Poll \/ Invoke \/ StartOAuth \/ SubmitToken \/ Close \/ UNCHANGED vars
               \/ \E item \in Item : OpenDialog(item)
               \/ \E r \in requests : \/ StartFails(r) \/ SubmitEnds(r) \/ SubmitFails(r)
                                     \/ \E outcome \in Outcome : TestEnds(r, outcome)
        PROVE  Unstarted'
    <3>1. UNCHANGED <<flow, nextFlow, exchanging, taken>>
      BY <2>6 DEF RetryConnect, ProvideToken, Poll, Invoke, StartOAuth, SubmitToken, Close, OpenDialog, StartFails,
                  SubmitEnds, SubmitFails, TestEnds, oauth, vars
    <3>2. QED
      BY <2>1, <3>1 DEF Unstarted
  <2>7. QED
    BY <2>1, <2>3, <2>4, <2>5, <2>6 DEF Next
<1>3. QED
  BY <1>1, <1>2, Invariance, PTL DEF Spec

\* The session a handler works with is one of its item or a fresh one, which it
\* then is no more.
LEMMA EnsuredIsFree ==
  ASSUME TypeOK, NEW s \in 0..MaxSessions, NEW i \in Item, Room(s), Advance(s), Refs(s, i),
         NEW n \in Sid, n = Ensured(s)
  PROVE  /\ n \in Fresh \/ Bounds[n] = i
         /\ Fresh' = Fresh \ {n}
         /\ Has(s) => n = s /\ Fresh' = Fresh /\ Bounds[n] = i
         /\ ~Has(s) => n \in Fresh
         /\ WithSession(s, i)[n].item = i
<1>1. nextSid \in Nat /\ nextSid' = (IF Has(s) THEN nextSid ELSE nextSid + 1) /\ \A t \in Sid : t \in Nat
  BY AdvanceTyped, TestSessionsAssumption DEF TypeOK, Sid
<1>2. CASE Has(s)
  <2>1. s \in Sid /\ n = s /\ s < nextSid /\ entries[s].item = i /\ WithSession(s, i)[n] = entries[s]
    BY <1>2, SessionFacts DEF Has, Refs
  <2>2. n \notin Fresh /\ Fresh' = Fresh
    BY <1>1, <1>2, <2>1 DEF Fresh
  <2>3. QED
    BY <1>2, <2>1, <2>2 DEF Bounds
<1>3. CASE ~Has(s)
  <2>1. n = nextSid /\ WithSession(s, i)[n].item = i
    BY <1>3, SessionFacts
  <2>2. nextSid' = nextSid + 1 /\ \A t \in Sid : t >= nextSid + 1 <=> t >= nextSid /\ t # n
    BY <1>1, <1>3, <2>1
  <2>3. n \in Fresh
    BY <1>1, <2>1 DEF Fresh
  <2>4. Fresh' = Fresh \ {n}
    BY <2>2, Zenon DEF Fresh
  <2>5. QED
    BY <1>3, <2>1, <2>3, <2>4
<1>4. QED
  BY <1>2, <1>3

\* A token of item i that is stored in the session of a handler.
LEMMA TokenIsHeld ==
  ASSUME TypeOK, NEW s \in 0..MaxSessions, NEW i \in Item, Room(s), Advance(s), Refs(s, i),
         NEW n \in Sid, n = Ensured(s), NEW f \in 0..MaxFlows, flow' = flow,
         entries' = StoreToken(WithSession(s, i), n, [from |-> f, item |-> i])
  PROVE  Promise!Holds(n, i, f)
<1> DEFINE es == WithSession(s, i)  t == [from |-> f, item |-> i]
<1>1. es \in [Sid -> Entry \cup {NoEntry}] /\ es[n] \in Entry /\ es[n].item = i
      /\ \A u \in Sid : u # n => es[u] = entries[u]
  BY SessionFacts, EnsuredIsFree
<1>2. entries'[n].item = i /\ entries'[n].token = t /\ \A u \in Sid : u # n => entries'[u] = entries[u]
  BY <1>1, TokenTyped, StoreTokenFacts
<1>3. Bounds' = [Bounds EXCEPT ![n] = i] /\ Helds' = [Helds EXCEPT ![n] = t]
  BY <1>2 DEF Bounds, Helds
<1>4. (n \in Fresh \/ Bounds[n] = i) /\ Fresh' = Fresh \ {n}
  BY EnsuredIsFree
<1>5. QED
  BY <1>3, <1>4 DEF Promise!Holds, Fresh, Bounds, Helds

\* Nothing the promise speaks of has moved.
LEMMA Still ==
  ASSUME UNCHANGED <<nextSid, flow, taken, exchanging>>,
         \A s \in Sid : entries'[s].item = entries[s].item /\ entries'[s].token = entries[s].token
  PROVE  UNCHANGED Promise!vars
<1>1. Fresh' = Fresh /\ Bounds' = Bounds /\ Helds' = Helds /\ Spent' = Spent
  BY DEF Fresh, Bounds, Helds, Spent
<1>2. QED
  BY <1>1 DEF Promise!vars, Fresh, Bounds, Helds, Spent

\* Sessions are closed and consents come to nothing.
LEMMA Losing ==
  ASSUME NEW S \in SUBSET Sid, NEW C \in SUBSET Flow, UNCHANGED <<nextSid, flow>>,
         \A s \in Sid : /\ s \in S => entries'[s] = NoEntry
                        /\ s \notin S => entries'[s] = entries[s],
         Spent' = Spent \cup C
  PROVE  Promise!Lose(S, C)
<1>1. Fresh' = Fresh
  BY DEF Fresh
<1>2. Bounds' = [s \in Sid |-> IF s \in S THEN NoItem ELSE Bounds[s]]
  BY EntryTyped DEF Bounds
<1>3. Helds' = [s \in Sid |-> IF s \in S THEN NoToken ELSE Helds[s]]
  BY EntryTyped DEF Helds
<1>4. Promise!Nothing = NoToken
  BY DEF Promise!Nothing, NoToken
<1>5. QED
  BY <1>1, <1>2, <1>3, <1>4 DEF Promise!Lose, Fresh, Bounds, Helds, Spent

PromiseKept == Promise!Next \/ UNCHANGED Promise!vars

LEMMA OpensOrLoses ==
  /\ \A s \in Sid, i \in Item : Promise!Open(s, i) => PromiseKept
  /\ \A S \in SUBSET Sid, C \in SUBSET Flow : Promise!Lose(S, C) => PromiseKept
<1>1. ASSUME NEW s \in Sid, NEW i \in Item, Promise!Open(s, i) PROVE PromiseKept
  BY <1>1, Zenon DEF PromiseKept, Promise!Next
<1>2. ASSUME NEW S \in SUBSET Sid, NEW C \in SUBSET Flow, Promise!Lose(S, C) PROVE PromiseKept
  BY <1>2, Zenon DEF PromiseKept, Promise!Next
<1>3. QED
  BY <1>1, <1>2

LEMMA PromiseStep == Inv /\ Unstarted /\ [Next]_vars => PromiseKept
<1>1. SUFFICES ASSUME Inv, Unstarted, [Next]_vars PROVE PromiseKept
  OBVIOUS
<1>a. /\ TypeOK /\ LiveHasDialog /\ StartsBound /\ StoreNumbered /\ FlowsNumbered /\ Bound
      /\ dialog \in DialogType \cup {Closed} /\ requests \subseteq Req
      /\ entries \in [Sid -> Entry \cup {NoEntry}] /\ nextFlow \in Nat /\ nextSid \in Nat
      /\ flow \in [Flow -> Context \cup {NoContext}] /\ \A n \in Sid \cup Flow : n \in Nat
      /\ taken \subseteq Flow /\ exchanging \subseteq Flow
  BY <1>1, TestSessionsAssumption DEF Inv, Safe, TypeOK, DialogType, Sid, Flow
<1>b. dialog # Closed =>
        dialog.item \in Item /\ dialog.sid \in 0..MaxSessions /\ Refs(dialog.sid, dialog.item)
  BY <1>a, DialogTyped DEF Bound
<1>c. \A r \in requests : r.item \in Item /\ r.sid \in 0..MaxSessions /\ Refs(r.sid, r.item)
  BY <1>a, ReqTyped DEF Bound
<1>2. CASE StartOAuth
  <2>1. /\ dialog # Closed /\ Room(dialog.sid) /\ Advance(dialog.sid)
        /\ entries' = WithSession(dialog.sid, dialog.item)
        /\ UNCHANGED <<flow, taken, exchanging>>
    BY <1>2, DialogTyped DEF StartOAuth, oauth
  <2>2. PICK n \in Sid : n = Ensured(dialog.sid)
    BY <1>a, <1>b, <2>1, SessionFacts
  <2>3. CASE Has(dialog.sid)
    <3>1. entries' = entries /\ nextSid' = nextSid
      BY <2>1, <2>3 DEF WithSession, Advance
    <3>2. QED
      BY <2>1, <3>1, Still DEF PromiseKept
  <2>4. CASE ~Has(dialog.sid)
    <3>1. n \in Fresh /\ Fresh' = Fresh \ {n}
      BY <1>a, <1>b, <2>1, <2>2, <2>4, EnsuredIsFree
    <3>2. n = nextSid /\ entries[n] = NoEntry
      BY <1>a, <2>2, <2>4 DEF Ensured, StoreNumbered
    <3>3. PICK i \in Item : i = dialog.item
      BY <1>b, <2>1
    <3>4. entries' = [entries EXCEPT ![n] = [NoEntry EXCEPT !.item = i]]
      BY <2>1, <2>4, <3>2, <3>3 DEF WithSession, Create
    <3>5. Bounds' = [Bounds EXCEPT ![n] = i] /\ Helds' = Helds
      BY <1>a, <3>2, <3>4, EntryTyped DEF Bounds, Helds
    <3>6. Promise!Open(n, i)
      BY <2>1, <3>1, <3>5 DEF Promise!Open, Fresh, Bounds, Helds
    <3>7. QED
      BY <3>6, OpensOrLoses
  <2>5. QED
    BY <2>3, <2>4
<1>3. ASSUME NEW r \in requests, SubmitEnds(r) PROVE PromiseKept
  <2>1. /\ Room(r.sid) /\ Advance(r.sid) /\ UNCHANGED <<flow, taken, exchanging>>
        /\ entries' = StoreToken(WithSession(r.sid, r.item), Ensured(r.sid), [from |-> 0, item |-> r.item])
    BY <1>3 DEF SubmitEnds, oauth
  <2>2. PICK n \in Sid : n = Ensured(r.sid)
    BY <1>a, <1>c, <2>1, SessionFacts
  <2>3. Promise!Holds(n, r.item, 0)
    BY <1>a, <1>c, <2>1, <2>2, TokenIsHeld, TestSessionsAssumption
  <2>4. QED
    BY <1>c, <2>1, <2>3 DEF PromiseKept, Promise!Next, Promise!TypedIn
<1>4. ASSUME NEW f \in Flow, ExchangeEnds(f) PROVE PromiseKept
  <2> DEFINE c == flow[f]
  <2>1. /\ f \in exchanging /\ Room(c.sid) /\ Advance(c.sid) /\ UNCHANGED <<flow, taken>>
        /\ exchanging' = exchanging \ {f}
        /\ entries' = StoreToken(WithSession(c.sid, c.item), Ensured(c.sid), [from |-> f, item |-> c.item])
    BY <1>4 DEF ExchangeEnds
  <2>2. c \in Context /\ c.item \in Item /\ c.sid \in Sid /\ c.sid \in 0..MaxSessions /\ Refs(c.sid, c.item)
    BY <1>a, <2>1 DEF FlowsNumbered, StartsBound, Bound, Context, Sid
  <2>3. PICK n \in Sid : n = Ensured(c.sid)
    BY <1>a, <2>1, <2>2, SessionFacts
  <2>4. Promise!Holds(n, c.item, f)
    BY <1>a, <2>1, <2>2, <2>3, TokenIsHeld DEF Flow
  <2>5. f \notin Spent /\ Spent' = Spent \cup {f}
    BY <1>1, <2>1 DEF Spent, Unstarted
  <2>6. c # Promise!NotAsked
    BY <2>2, TestSessionsAssumption DEF Promise!NotAsked
  <2>7. n = c.sid \/ (Bounds[c.sid] = NoItem /\ n \in Fresh)
    <3>1. Has(c.sid) => n = c.sid
      BY <2>3 DEF Ensured
    <3>2. ~Has(c.sid) => Bounds[c.sid] = NoItem
      BY <2>2, EntryTyped, TestSessionsAssumption DEF Has, Bounds, Sid
    <3>3. ~Has(c.sid) => n \in Fresh
      BY <1>a, <2>1, <2>2, <2>3, EnsuredIsFree
    <3>4. QED
      BY <3>1, <3>2, <3>3
  <2>8. Promise!Grant(f, n)
    BY <2>4, <2>5, <2>6, <2>7 DEF Promise!Grant, Bounds, Fresh, Spent
  <2>9. QED
    BY <2>8 DEF PromiseKept, Promise!Next
<1>5. ASSUME NEW r \in requests, StartEnds(r) PROVE PromiseKept
  <2>1. /\ r.kind = "start" /\ nextFlow <= MaxFlows
        /\ flow' = [flow EXCEPT ![nextFlow] = [item |-> r.item, sid |-> r.sid]]
        /\ entries' = IF Has(r.sid) THEN [entries EXCEPT ![r.sid].state = nextFlow] ELSE entries
        /\ UNCHANGED <<nextSid, exchanging, taken>>
    BY <1>5 DEF StartEnds
  <2>2. PICK k \in Flow : k = nextFlow
    BY <1>a, <2>1, TestSessionsAssumption DEF TypeOK, Flow
  <2>3. r.sid \in Sid /\ r.sid < nextSid /\ (entries[r.sid] = NoEntry \/ entries[r.sid].item = r.item)
    BY <1>a, <1>c, <2>1, TestSessionsAssumption DEF StartsBound, Refs, Sid
  <2>4. \A s \in Sid : entries'[s].item = entries[s].item /\ entries'[s].token = entries[s].token
    <3>1. CASE Has(r.sid)
      <4>1. entries[r.sid] \in Entry
        BY <1>a, <2>3, <3>1 DEF Has
      <4>2. entries' = [entries EXCEPT ![r.sid] = [entries[r.sid] EXCEPT !.state = k]]
        BY <2>1, <2>2, <3>1
      <4>3. k \in 0..MaxFlows
        BY DEF Flow
      <4>4. QED
        BY <1>a, <4>1, <4>2, <4>3, EntryKeeps
    <3>2. QED
      BY <2>1, <3>1
  <2>5. Fresh' = Fresh /\ Bounds' = Bounds /\ Helds' = Helds /\ Spent' = Spent
    BY <2>1, <2>4 DEF Fresh, Bounds, Helds, Spent
  <2>6. flow[k] = Promise!NotAsked
    BY <1>1, <1>a, <2>2 DEF Unstarted, NoContext, Promise!NotAsked
  <2>7. r.sid \notin Fresh /\ Bounds[r.sid] \in {r.item, NoItem}
    BY <1>a, <2>3, EntryTyped DEF Fresh, Bounds
  <2>8. Promise!Ask(k, r.sid, r.item)
    BY <2>1, <2>2, <2>5, <2>6, <2>7 DEF Promise!Ask, Fresh, Bounds, Helds, Spent
  <2>9. QED
    BY <1>c, <2>3, <2>8 DEF PromiseKept, Promise!Next
<1>6. CASE Close
  <2>1. /\ dialog # Closed /\ UNCHANGED <<nextSid, flow, exchanging, taken>>
        /\ entries' = IF Has(dialog.sid) THEN [entries EXCEPT ![dialog.sid] = NoEntry] ELSE entries
    BY <1>6 DEF Close, oauth
  <2>2. CASE Has(dialog.sid)
    <3>1. dialog.sid \in Sid
      BY <1>b, <2>1, <2>2, TestSessionsAssumption DEF Has, Sid
    <3>2. \A s \in Sid : /\ s \in {dialog.sid} => entries'[s] = NoEntry
                         /\ s \notin {dialog.sid} => entries'[s] = entries[s]
      BY <1>a, <2>1, <2>2, <3>1
    <3>3. Spent' = Spent \cup {}
      BY <2>1 DEF Spent
    <3>4. Promise!Lose({dialog.sid}, {})
      BY <2>1, <3>1, <3>2, <3>3, Losing
    <3>5. QED
      BY <3>1, <3>4, OpensOrLoses
  <2>3. CASE ~Has(dialog.sid)
    BY <2>1, <2>3, Still DEF PromiseKept
  <2>4. QED
    BY <2>2, <2>3
<1>7. CASE Restart
  <2>1. entries' = [s \in Sid |-> NoEntry] /\ exchanging' = {} /\ UNCHANGED <<nextSid, flow, taken>>
    BY <1>7 DEF Restart
  <2>2. PICK C \in SUBSET Flow : C = exchanging
    BY <1>a
  <2>3. Promise!Lose(Sid, C)
    <3>1. Spent' = Spent \cup C /\ \A s \in Sid : entries'[s] = NoEntry
      BY <1>1, <2>1, <2>2 DEF Spent, Unstarted
    <3>2. QED
      BY <2>1, <3>1, Losing
  <2>4. QED
    BY <1>a, <2>3, OpensOrLoses
<1>8. ASSUME NEW f \in Flow, CallbackTakes(f) \/ FlowExpires(f) \/ ExchangeFails(f) PROVE PromiseKept
  <2>1. UNCHANGED <<entries, nextSid, flow>>
    BY <1>8 DEF CallbackTakes, FlowExpires, ExchangeFails, store
  <2>2. Spent' = Spent \/ Spent' = Spent \cup {f}
    <3>1. CASE CallbackTakes(f)
      <4>1. f \in flows /\ taken' = taken \cup {f} /\ f \notin taken /\ f \notin exchanging
        BY <1>1, <1>a, <3>1 DEF CallbackTakes, FlowsNumbered, Unstarted
      <4>2. exchanging' = exchanging \cup {f} \/ exchanging' = exchanging
        BY <3>1 DEF CallbackTakes
      <4>3. QED
        BY <4>1, <4>2 DEF Spent
    <3>2. CASE FlowExpires(f)
      BY <3>2 DEF FlowExpires, Spent
    <3>3. CASE ExchangeFails(f)
      BY <1>1, <3>3 DEF ExchangeFails, Spent, Unstarted
    <3>4. QED
      BY <1>8, <3>1, <3>2, <3>3
  <2>3. PICK C \in SUBSET Flow : Spent' = Spent \cup C
    <3>1. Spent' = Spent \cup {} \/ Spent' = Spent \cup {f}
      BY <2>2
    <3>2. {} \in SUBSET Flow /\ {f} \in SUBSET Flow
      OBVIOUS
    <3>3. QED
      BY <3>1, <3>2
  <2>4. Promise!Lose({}, C)
    BY <2>1, <2>3, Losing
  <2>5. QED
    BY <2>4, OpensOrLoses
<1>9. ASSUME \/ RetryConnect \/ ProvideToken \/ Poll \/ Invoke \/ SubmitToken \/ UNCHANGED vars
             \/ \E item \in Item : OpenDialog(item)
             \/ \E r \in requests : \/ StartFails(r) \/ SubmitFails(r)
                                   \/ \E outcome \in Outcome : TestEnds(r, outcome)
      PROVE  PromiseKept
  <2>1. UNCHANGED <<entries, nextSid, flow, taken, exchanging>>
    BY <1>9 DEF RetryConnect, ProvideToken, Poll, Invoke, SubmitToken, OpenDialog, StartFails, SubmitFails, TestEnds,
                store, oauth, vars
  <2>2. QED
    BY <2>1, Still DEF PromiseKept
<1>10. QED
  BY <1>1, <1>2, <1>3, <1>4, <1>5, <1>6, <1>7, <1>8, <1>9 DEF Next

\* The session store, the flow store and the routes keep the promise made to whoever
\* entrusts credentials to them: every step is one of SessionPromise or a stutter.
THEOREM SessionsKeepPromise == Spec => KeepsPromise
<1>1. Init => Promise!Init
  <2>1. SUFFICES ASSUME Init PROVE Promise!Init
    OBVIOUS
  <2>2. \A s \in Sid : s >= 1
    BY DEF Sid
  <2>3. Fresh = Sid /\ Spent = {}
    BY <2>1, <2>2 DEF Init, Fresh, Spent
  <2>4. Bounds = [s \in Sid |-> NoItem] /\ Helds = [s \in Sid |-> NoToken]
    BY <2>1, EntryTyped DEF Init, Bounds, Helds
  <2>5. QED
    BY <2>1, <2>3, <2>4 DEF Init, Promise!Init, Promise!Nothing, Promise!NotAsked, NoToken, NoContext,
                            Fresh, Bounds, Helds, Spent
<1>2. Inv /\ Unstarted /\ [Next]_vars => [Promise!Next]_(Promise!vars)
  BY PromiseStep DEF PromiseKept
<1>3. QED
  BY Invariance, UnstartedHolds, <1>1, <1>2, PTL DEF Spec, KeepsPromise, Promise!Spec
=============================================================================
