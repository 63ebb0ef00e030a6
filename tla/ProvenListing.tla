--------------------------- MODULE ProvenListing ---------------------------
(***************************************************************************)
(* What the server registry promises to the users of its default search    *)
(* (rule 8 of the verification service: no faked verified status): a       *)
(* server is listed only if, at some moment before, somebody saw it work - *)
(* a verification run or a user's own test of that very server succeeded.  *)
(* Nothing is said of how or when servers are tried, or delisted.          *)
(***************************************************************************)
CONSTANT Server

VARIABLES listed,        \* servers the default search returns
          proven         \* servers that have worked at least once

Init == listed = {} /\ proven = {}

\* A server is seen to work; its listing may change by the same decision.
Prove(s) ==
  /\ proven' = proven \cup {s}
  /\ listed' \in {listed \cup {s}, listed \ {s}}

List(s) ==
  /\ s \in proven
  /\ listed' = listed \cup {s}
  /\ UNCHANGED proven

Delist(s) ==
  /\ listed' = listed \ {s}
  /\ UNCHANGED proven

Next == \E s \in Server : Prove(s) \/ List(s) \/ Delist(s)

Spec == Init /\ [][Next]_<<listed, proven>>
=============================================================================
