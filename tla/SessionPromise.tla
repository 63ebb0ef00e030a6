--------------------------- MODULE SessionPromise ---------------------------
(***************************************************************************)
(* What whoever entrusts credentials to the sandbox may rely on.  A        *)
(* session is opened for one item, never changes it and, once closed,      *)
(* never comes back.  It holds one token at a time, for its own item.  A   *)
(* consent that was asked for a session and an item becomes a token at     *)
(* most once, for that item: in that session, or in a new one if the       *)
(* session was closed meanwhile.                                           *)
(***************************************************************************)
CONSTANTS Session, Item, NoItem, Consent

VARIABLES fresh,     \* sessions not opened yet
          bound,     \* the item of every open session
          held,      \* the token it holds
          asked,     \* what each consent was asked for
          spent      \* consents nothing will come of any more

vars == <<fresh, bound, held, asked, spent>>

Nothing  == [from |-> 0, item |-> NoItem]
NotAsked == [item |-> NoItem, sid |-> 0]

Init ==
  /\ fresh = Session
  /\ bound = [s \in Session |-> NoItem] /\ held = [s \in Session |-> Nothing]
  /\ asked = [c \in Consent |-> NotAsked] /\ spent = {}

Open(s, i) ==
  /\ s \in fresh /\ fresh' = fresh \ {s}
  /\ bound' = [bound EXCEPT ![s] = i]
  /\ UNCHANGED <<held, asked, spent>>

\* A token for i, whatever it comes from, goes to a session of i or a new one.
Holds(s, i, from) ==
  /\ s \in fresh \/ bound[s] = i
  /\ fresh' = fresh \ {s}
  /\ bound' = [bound EXCEPT ![s] = i]
  /\ held' = [held EXCEPT ![s] = [from |-> from, item |-> i]]
  /\ UNCHANGED asked

TypedIn(s, i) == Holds(s, i, 0) /\ UNCHANGED spent

Ask(c, s, i) ==
  /\ asked[c] = NotAsked
  /\ s \notin fresh /\ bound[s] \in {i, NoItem}
  /\ asked' = [asked EXCEPT ![c] = [item |-> i, sid |-> s]]
  /\ UNCHANGED <<fresh, bound, held, spent>>

Grant(c, s) ==
  /\ c \notin spent /\ asked[c] # NotAsked
  /\ s = asked[c].sid \/ (bound[asked[c].sid] = NoItem /\ s \in fresh)
  /\ Holds(s, asked[c].item, c)
  /\ spent' = spent \cup {c}

\* Sessions are closed, consents come to nothing; a restart does both at once.
Lose(S, C) ==
  /\ bound' = [s \in Session |-> IF s \in S THEN NoItem ELSE bound[s]]
  /\ held' = [s \in Session |-> IF s \in S THEN Nothing ELSE held[s]]
  /\ spent' = spent \cup C
  /\ UNCHANGED <<fresh, asked>>

Next ==
  \/ \E S \in SUBSET Session, C \in SUBSET Consent : Lose(S, C)
  \/ \E s \in Session, i \in Item :
       Open(s, i) \/ TypedIn(s, i) \/ \E c \in Consent : Ask(c, s, i)
  \/ \E s \in Session, c \in Consent : Grant(c, s)

Spec == Init /\ [][Next]_vars
=============================================================================
