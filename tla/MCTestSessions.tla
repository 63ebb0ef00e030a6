--------------------------- MODULE MCTestSessions ---------------------------
(* One item whose provider registers clients, one whose provider does not.  *)
EXTENDS TestSessions, TLC

CONSTANTS slack, notion
Items == {slack, notion}
WithoutRegistration == {slack}
=============================================================================
