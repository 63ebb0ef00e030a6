CONSTANTS
  a = a
  b = b
  q1 = q1
  q2 = q2
  q3 = q3
  NoTerm = NoTerm
  Term = {a, b}
  Search = {q1, q2, q3}
  Rank <- RankAB
  PageLimit = 1
  MaxFaults = 2
SPECIFICATION FairSpec
INVARIANTS TypeOK DoneStandsOnAnswers
PROPERTIES GithubIsFallback PickedUp
CHECK_DEADLOCK FALSE
