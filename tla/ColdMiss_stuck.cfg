CONSTANTS
  a = a
  b = b
  q1 = q1
  q2 = q2
  q3 = q3
  NoTerm = NoTerm
  Term = {a, b}
  Search = {q1}
  Rank <- RankAB
  PageLimit = 1
  MaxFaults = 1
SPECIFICATION FairSpec
PROPERTIES EveryTermFinishes
CHECK_DEADLOCK FALSE
