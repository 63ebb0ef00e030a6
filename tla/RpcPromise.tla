----------------------------- MODULE RpcPromise -----------------------------
(***************************************************************************)
(* What callers of a JSON-RPC client may rely on: a call ends once, and    *)
(* with an answer only after the server has answered that very call.       *)
(***************************************************************************)
CONSTANTS Call, Foreign     \* Foreign: calls nothing is promised about

VARIABLES open,             \* calls made and not ended
          returned,         \* calls that ended with an answer
          failed,           \* calls that ended with an error
          said              \* calls the server has answered

vars == <<open, returned, failed, said>>

Init == open = {} /\ returned = {} /\ failed = {} /\ said = {}

Ask(c) ==
  /\ c \notin open \cup returned \cup failed
  /\ \/ open' = open \cup {c} /\ UNCHANGED failed
     \/ failed' = failed \cup {c} /\ UNCHANGED open
  /\ UNCHANGED <<returned, said>>

Say(c) == said' = said \cup {c} /\ UNCHANGED <<open, returned, failed>>

Return(c) ==
  /\ c \in open /\ c \in said \cup Foreign
  /\ open' = open \ {c} /\ returned' = returned \cup {c}
  /\ UNCHANGED <<failed, said>>

\* The end of the output fails several calls at once.
Fail ==
  /\ \E lost \in SUBSET open : open' = open \ lost /\ failed' = failed \cup lost
  /\ UNCHANGED <<returned, said>>

Next == (\E c \in Call : Ask(c) \/ Say(c) \/ Return(c)) \/ Fail

Spec == Init /\ [][Next]_vars
=============================================================================
