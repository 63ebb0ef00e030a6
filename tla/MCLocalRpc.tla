----------------------------- MODULE MCLocalRpc -----------------------------
(* Two attempts of two requests and one or two invocations; the server asks *)
(* a question of its own under a number the client may be using.            *)
EXTENDS LocalRpc

AsksOne == {1}
=============================================================================
