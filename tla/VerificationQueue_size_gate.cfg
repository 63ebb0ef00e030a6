CONSTANTS
  a = a
  b = b
  NoServer = NoServer
  Server = {a}
  Unfit = {}
  Oversize = {a}
  Rank <- RankA
  QueueLimit = 1
  ReviewLimit = 1
  MaxTools = 1
  MaxRequests = 0
  MaxFaults = 0
  MaxExpiries = 0
SPECIFICATION Spec
INVARIANTS GateComesFirst
