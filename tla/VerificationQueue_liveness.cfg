CONSTANTS
  a = a
  b = b
  NoServer = NoServer
  Server = {a, b}
  Unfit = {b}
  Oversize = {}
  Rank <- RankAB
  QueueLimit = 1
  ReviewLimit = 2
  MaxTools = 1
  MaxRequests = 0
  MaxFaults = 0
  MaxExpiries = 1
SPECIFICATION FairSpec
PROPERTIES QueueDrains ReviewFinishes ExpiredIsReverified
