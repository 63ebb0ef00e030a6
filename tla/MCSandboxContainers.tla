------------------------ MODULE MCSandboxContainers ------------------------
(* A session of a user's test from a repository, one from a package, and    *)
(* one of the verification worker.                                          *)
EXTENDS SandboxContainers, TLC

CONSTANTS a, b, v, NoBody

Worker == a :> NoUser @@ b :> NoUser @@ v :> NoBody
=============================================================================
