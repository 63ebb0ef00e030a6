----------------------------- MODULE MCColdMiss -----------------------------
(* A small instance of ColdMiss: two terms and the order of their rows.     *)
EXTENDS ColdMiss, TLC

CONSTANTS a, b, q1, q2, q3

RankAB == a :> 1 @@ b :> 2
=============================================================================
