CONSTANTS
  a = a
  b = b
  NoServer = NoServer
  Server = {a}
  Unfit = {}
  Oversize = {}
  Rank <- RankA
  QueueLimit = 1
  ReviewLimit = 1
  MaxTools = 1
  MaxRequests = 0
  MaxFaults = 0
  MaxExpiries = 1
SPECIFICATION Spec
PROPERTIES BadgeFollowsVerdict
