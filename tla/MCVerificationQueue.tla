------------------------ MODULE MCVerificationQueue ------------------------
(* Small instances of VerificationQueue: one or two servers as model values *)
(* and the order in which the database returns their rows.                  *)
EXTENDS VerificationQueue, TLC

CONSTANTS a, b

RankA  == a :> 1
RankAB == a :> 1 @@ b :> 2
=============================================================================
